---- MODULE Spec2Model ----
(***************************************************************************)
(* Commando command framework: the interactive argument collection engine *)
(* (Argument, ArgumentCollector), the message command runner               *)
(* (CommandoMessage.run) and the dispatcher's message handling.            *)
(*                                                                         *)
(* JavaScript is single threaded: every action below is the code that     *)
(* runs between two suspensions of one handler on network or timer I/O.   *)
(* Raw strings are sequences of one-character strings.                     *)
(***************************************************************************)
EXTENDS Integers, Sequences, FiniteSets, TLC

VARIABLES handlers, awaiting, throttles, now, cmd, nEvents, ctor, results, options,
          registry, parsed, cmdMsg, invite, guild, validation, stored

vars == <<handlers, awaiting, throttles, now, cmd, nEvents, ctor, results, options,
          registry, parsed, cmdMsg, invite, guild, validation, stored>>

(***************************************************************************)
(* Bounds of the model.                                                    *)
(***************************************************************************)
MaxAnswers == 3
MaxEvents == 3
MaxTicks == 4
MaxCtorArgs == 3
MaxPromptLimit == 2

(***************************************************************************)
(* Program constants.                                                      *)
(***************************************************************************)
Infinity == 1000000
DefaultWait == 30
CommandEditableDuration == 30
ArgMax == 5
TickMs == 500

Handlers == {1, 2}
Channels == {"c1", "c2"}

(***************************************************************************)
(* JavaScript values.                                                      *)
(***************************************************************************)
JNull == [t |-> "null", n |-> 0, a |-> <<>>]
JNum(n) == [t |-> "number", n |-> n, a |-> <<>>]
JArr(a) == [t |-> "array", n |-> 0, a |-> a]

RUndef == [t |-> "undefined", s |-> <<>>, a |-> <<>>]
RStr(s) == [t |-> "string", s |-> s, a |-> <<>>]
RArr(a) == [t |-> "array", s |-> <<>>, a |-> a]

VTrue == [t |-> "boolean", b |-> TRUE, m |-> ""]
VFalse == [t |-> "boolean", b |-> FALSE, m |-> ""]
VStr(m) == [t |-> "string", b |-> FALSE, m |-> m]
\* no result: the call of validate threw
VThrow == [t |-> "throw", b |-> FALSE, m |-> ""]

\* a loop condition that forgets the string case
Invalid_IgnoresString(valid) == valid.t = "boolean" /\ ~valid.b

\* the loop condition `!valid || typeof valid === 'string'`
Invalid(valid) == (valid.t = "boolean" /\ ~valid.b) \/ valid.t = "string"

S_empty == <<>>
S_3 == <<"3">>
S_4 == <<"4">>
S_9 == <<"9">>
S_x == <<"x">>
S_cancel == <<"c", "a", "n", "c", "e", "l">>
S_Cancel == <<"C", "a", "n", "c", "e", "l">>
S_finish == <<"f", "i", "n", "i", "s", "h">>

LowerChar(c) ==
    CASE c = "A" -> "a" [] c = "C" -> "c" [] c = "E" -> "e" [] c = "F" -> "f"
      [] c = "H" -> "h" [] c = "I" -> "i" [] c = "L" -> "l" [] c = "N" -> "n"
      [] c = "S" -> "s" [] OTHER -> c

\* a comparison that does not fold the case
ToLowerCase_Identity(s) == s

\* String.prototype.toLowerCase
ToLowerCase(s) == [k \in 1..Len(s) |-> LowerChar(s[k])]

IsDigit(c) == c \in {"0", "1", "2", "3", "4", "5", "6", "7", "8", "9"}

DigitVal(c) ==
    CASE c = "0" -> 0 [] c = "1" -> 1 [] c = "2" -> 2 [] c = "3" -> 3 [] c = "4" -> 4
      [] c = "5" -> 5 [] c = "6" -> 6 [] c = "7" -> 7 [] c = "8" -> 8 [] OTHER -> 9

RECURSIVE DigitPrefix(_, _, _)
DigitPrefix(s, k, acc) ==
    IF k > Len(s) \/ ~IsDigit(s[k]) THEN [len |-> k - 1, n |-> acc]
    ELSE DigitPrefix(s, k + 1, acc * 10 + DigitVal(s[k]))

\* parseInt on unsigned input: the leading run of digits, NaN when there is none
ParseInt(s) ==
    LET p == DigitPrefix(s, 1, 0)
    IN  [nan |-> p.len = 0, n |-> p.n]

(***************************************************************************)
(* ArgumentInfo and Argument.                                              *)
(***************************************************************************)
\* info.default: "absent" (no key), "null", "zero" (literal 0), "literal" (7), "function"
\* info.required: "absent", "true", "false"
\* info.type: "integer" or "none" (no key); info.validate, info.parse: whether a custom
\* function is given (the ones of the inputs test and read an integer as the type does)
ArgInfo(key, dflt, req, inf) ==
    [key |-> key, default |-> dflt, required |-> req, infinite |-> inf,
     max |-> ArgMax, wait |-> DefaultWait, error |-> "",
     type |-> "integer", validate |-> FALSE, parse |-> FALSE]

\* Argument.validateInfo: the message of the error it throws, "" when it returns
ValidateInfo(info) ==
    IF info.type = "none" /\ ~info.validate
        THEN "Argument must have either \"type\" or \"validate\" specified."
    ELSE IF info.type = "none" /\ (~info.validate \/ ~info.parse)
        THEN "Argument must have both validate and parse since it doesn't have a type."
    ELSE ""

\* `'required' in info ? !!info.required : !('default' in info)`
ArgRequired(info) ==
    IF info.required # "absent" THEN info.required = "true" ELSE info.default = "absent"

\* truthiness of this.default
ArgDefaultTruthy(info) == info.default \in {"literal", "function"}

\* a default that is returned only when it is truthy
ResolveDefault_Falsy(info) ==
    CASE info.default = "literal" -> JNum(7)
      [] info.default = "function" -> JNum(8)
      [] OTHER -> JNull

\* `typeof this.default === 'function' ? await this.default(message, this) : this.default`
ResolveDefault(info) ==
    CASE info.default = "literal" -> JNum(7)
      [] info.default = "zero" -> JNum(0)
      [] info.default = "function" -> JNum(8)
      [] OTHER -> JNull

\* Argument.isEmpty with the type's default emptiness test
IsEmpty(value) ==
    IF value.t = "array" THEN Len(value.a) = 0
    ELSE value.t = "undefined" \/ value.s = <<>>

\* IntegerArgumentType.validate
IntegerValidate(val, info) ==
    LET int == ParseInt(val)
    IN  IF int.nan THEN VFalse
        ELSE IF int.n > info.max THEN VStr("Please enter a number below or exactly max.")
        ELSE VTrue

\* IntegerArgumentType.parse
IntegerParse(val) == ParseInt(val).n

\* String.prototype.split('\n') for the strings of the model
SplitLines(m) == IF m = "first\nlast" THEN <<"first", "last">> ELSE <<m>>

\* what Argument.validate returns for the validator's result `valid`, returned
\* directly or as the resolution of a promise; error is this.error, "" when null
ValidateResult(valid, viaPromise, error) ==
    LET overridden == IF error # "" THEN VStr(error) ELSE valid
        arr == SplitLines(valid.m)
    IN  IF ~viaPromise THEN (IF Invalid(valid) THEN overridden ELSE valid)
        ELSE IF valid.t = "string" THEN VStr(arr[Len(arr)])
        ELSE IF ~valid.b THEN overridden
        ELSE valid

\* no call of validate yet, directly and through a promise
NoValidation ==
    [how \in {"direct", "promise"} |->
        [called |-> FALSE, valid |-> VFalse, error |-> "", outcome |-> VFalse]]

\* Argument.validate: `if (!this.type || (!this.type && this.validator)) throw ...`,
\* then the custom validator or the integer type's, which returns directly
ArgValidate(val, info) ==
    IF info.type = "none" THEN VThrow
    ELSE ValidateResult(IntegerValidate(val, info), FALSE, info.error)


(***************************************************************************)
(* State of one in-flight call (a handler), and the results it builds.     *)
(***************************************************************************)
NoValidate == [has |-> FALSE, raw |-> <<>>, ok |-> FALSE]
NoResult == [value |-> JNull, cancelled |-> "null", prompts |-> <<>>, answers |-> <<>>]
NoCollResult == [has |-> FALSE, values |-> <<>>, cancelled |-> "null", prompts |-> <<>>, answers |-> <<>>]

IdleHandler ==
    [pc |-> "idle", via |-> "none", msgId |-> 0, author |-> "u1", chan |-> "c1",
     argString |-> <<>>, provided |-> <<>>, L |-> 0, i |-> 0,
     value |-> RUndef, values |-> <<>>, empty |-> FALSE, valid |-> VFalse,
     prompts |-> <<>>, answers |-> <<>>, results |-> <<>>, attempts |-> 0, currentVal |-> 0,
     slotPrompts |-> 0, lastValidate |-> NoValidate, parseLog |-> {},
     res |-> NoResult, argResults |-> <<>>, collValues |-> <<>>, collResult |-> NoCollResult,
     registered |-> FALSE, throttleGen |-> 0,
     nBlock |-> 0, nCancel |-> 0, nRun |-> 0, nError |-> 0, blockReason |-> "", remaining |-> 0,
     cancelCause |-> "", thrown |-> "",
     inhibitResults |-> <<>>, inhibitCalls |-> <<>>, blockBy |-> 0, enabledIn |-> TRUE,
     bodyCalls |-> 0, bodyArgs |-> <<>>, onErrorCalls |-> 0, outcome |-> ""]

\* cacheCommandoMessage for a new message: the message is cached when the handling
\* produced a response (an inhibitor's string reason has none)
CacheResult(cache, s, outcome, opts) ==
    IF opts.commandEditableDuration <= 0 THEN cache
    ELSE IF outcome = "inhibited" THEN cache \ {s.msgId}
    ELSE cache \cup {s.msgId}

\* handleMessage returned: its locals are gone, what it emitted and did remains
Finished(s, outcome) ==
    [IdleHandler EXCEPT !.pc = "done", !.via = s.via, !.author = s.author, !.chan = s.chan,
                        !.nBlock = s.nBlock, !.nCancel = s.nCancel, !.nRun = s.nRun,
                        !.nError = s.nError, !.blockReason = s.blockReason,
                        !.cancelCause = s.cancelCause, !.thrown = s.thrown,
                        !.inhibitResults = s.inhibitResults,
                        !.inhibitCalls = s.inhibitCalls, !.blockBy = s.blockBy,
                        !.enabledIn = s.enabledIn,
                        !.remaining = s.remaining, !.bodyCalls = s.bodyCalls,
                        !.bodyArgs = s.bodyArgs, !.onErrorCalls = s.onErrorCalls,
                        !.collResult = s.collResult, !.outcome = outcome]

\* a call of this.validate(value, ...), remembered as the most recent one
DoValidate(s, raw, info) ==
    LET valid == ArgValidate(raw, info)
    IN  [s EXCEPT !.valid = valid,
                  !.lastValidate = [has |-> TRUE, raw |-> raw, ok |-> valid = VTrue]]

\* a call of this.parse(value, ...): logs the raw value with the latest validation
LogParse(s, raw) ==
    [s EXCEPT !.parseLog = @ \cup {[raw |-> raw, validated |-> s.lastValidate]}]

\* the call of this.validate threw: obtain rejects
ArgThrow(s) == [s EXCEPT !.pc = "argThrew", !.thrown = "validate"]

\* `return { value, cancelled, prompts, answers }`
ArgReturn(s, value, cancelled) ==
    [s EXCEPT !.pc = "argRet",
              !.res = [value |-> value, cancelled |-> cancelled,
                       prompts |-> s.prompts, answers |-> s.answers]]

\* the prompt limit test off by one
SingleLoop_OffByOne(s, info, L) ==
    IF ~Invalid(s.valid)
        THEN ArgReturn(LogParse(s, s.value.s), JNum(IntegerParse(s.value.s)), "null")
    ELSE IF Len(s.prompts) > L
        THEN ArgReturn(s, JNull, "promptLimit")
    ELSE [s EXCEPT !.pc = "prompt"]

(***************************************************************************)
(* Argument.obtain, single value: the head of the prompting loop.          *)
(***************************************************************************)
SingleLoop(s, info, L) ==
    IF s.valid = VThrow THEN ArgThrow(s)
    ELSE IF ~Invalid(s.valid)
        THEN ArgReturn(LogParse(s, s.value.s), JNum(IntegerParse(s.value.s)), "null")
    ELSE IF Len(s.prompts) >= L
        THEN ArgReturn(s, JNull, "promptLimit")
    ELSE [s EXCEPT !.pc = "prompt"]

(***************************************************************************)
(* Argument.obtainInfinite: the outer loop (next slot) and the inner loop  *)
(* (prompting for one slot).                                               *)
(***************************************************************************)
Truthy(value) == value.t = "string" /\ value.s # <<>>

RECURSIVE InfOuter(_, _, _)
RECURSIVE InfInner(_, _, _)

\* an outer loop that ignores the values provided with the command
InfOuter_IgnoresProvided(s, info, L) ==
    InfInner([s EXCEPT !.value = RUndef, !.attempts = 0, !.slotPrompts = 0, !.valid = VFalse],
             info, L)

InfOuter(s, info, L) ==
    LET value == IF s.currentVal + 1 <= Len(s.values)
                 THEN RStr(s.values[s.currentVal + 1]) ELSE RUndef
        s1 == [s EXCEPT !.value = value, !.attempts = 0, !.slotPrompts = 0]
        s2 == IF Truthy(value) THEN DoValidate(s1, value.s, info)
              ELSE [s1 EXCEPT !.valid = VFalse]
    IN  InfInner(s2, info, L)

\* an inner loop that collects the values in reverse order
InfInner_Prepend(s, info, L) ==
    IF Invalid(s.valid)
    THEN LET s1 == [s EXCEPT !.attempts = @ + 1]
         IN  IF s1.attempts > L THEN ArgReturn(s1, JNull, "promptLimit")
             ELSE IF Truthy(s1.value) \/ Len(s1.results) = 0 THEN [s1 EXCEPT !.pc = "prompt"]
             ELSE [s1 EXCEPT !.pc = "await"]
    ELSE LET s1 == [LogParse(s, s.value.s) EXCEPT
                        !.results = <<IntegerParse(s.value.s)>> \o @,
                        !.currentVal = @ + 1]
         IN  IF s1.currentVal = Len(s1.values) THEN ArgReturn(s1, JArr(s1.results), "null")
             ELSE InfOuter(s1, info, L)

InfInner(s, info, L) ==
    IF s.valid = VThrow THEN ArgThrow(s)
    ELSE IF Invalid(s.valid)
    THEN LET s1 == [s EXCEPT !.attempts = @ + 1]
         IN  IF s1.attempts > L THEN ArgReturn(s1, JNull, "promptLimit")
             ELSE IF Truthy(s1.value) \/ Len(s1.results) = 0 THEN [s1 EXCEPT !.pc = "prompt"]
             ELSE [s1 EXCEPT !.pc = "await"]
    ELSE LET s1 == [LogParse(s, s.value.s) EXCEPT
                        !.results = Append(@, IntegerParse(s.value.s)),
                        !.currentVal = @ + 1]
         IN  IF s1.currentVal = Len(s1.values) THEN ArgReturn(s1, JArr(s1.results), "null")
             ELSE InfOuter(s1, info, L)

(***************************************************************************)
(* Argument.obtain up to its first suspension.                             *)
(***************************************************************************)
ObtainStart(s0, info, value, L) ==
    LET s == [s0 EXCEPT !.value = value, !.values = <<>>, !.prompts = <<>>, !.answers = <<>>,
                        !.results = <<>>, !.attempts = 0, !.currentVal = 0, !.slotPrompts = 0,
                        !.valid = VFalse, !.lastValidate = NoValidate,
                        !.empty = IsEmpty(value)]
    IN  IF s.empty /\ ~ArgRequired(info) THEN ArgReturn(s, ResolveDefault(info), "null")
        ELSE IF info.infinite \/ value.t = "array"
            THEN InfOuter([s EXCEPT !.values = value.a], info, L)
        ELSE SingleLoop(IF ~s.empty THEN DoValidate(s, value.s, info) ELSE s, info, L)

\* `prompts.push(await message.replyEmbed(prompt))`, then awaitMessages
ObtainPromptSent(s) ==
    [s EXCEPT !.prompts = Append(@, s.i), !.slotPrompts = @ + 1, !.pc = "await"]

\* awaitMessages resolved with the user's next message
ObtainReply(s0, info, L, text) ==
    LET s == [s0 EXCEPT !.answers = Append(@, text), !.value = RStr(text)]
        lc == ToLowerCase(text)
    IN  IF info.infinite
        THEN IF lc = S_finish
                 THEN ArgReturn(s,
                        IF Len(s.results) > 0 THEN JArr(s.results) ELSE JNull,
                        IF ArgDefaultTruthy(info) THEN "null"
                        ELSE IF Len(s.results) > 0 THEN "null" ELSE "user")
             ELSE IF lc = S_cancel THEN ArgReturn(s, JNull, "user")
             ELSE InfInner(DoValidate(s, text, info), info, L)
        ELSE IF lc = S_cancel THEN ArgReturn(s, JNull, "user")
             ELSE SingleLoop(DoValidate([s EXCEPT !.empty = IsEmpty(RStr(text))], text, info),
                             info, L)

\* a timeout that reports no cancellation cause
ObtainTimeout_NoCause(s) == ArgReturn(s, JNull, "null")

\* a timeout reported as a cancellation by the user
ObtainTimeout_AsUser(s) == ArgReturn(s, JNull, "user")

\* awaitMessages resolved empty after `wait` seconds
ObtainTimeout(s) == ArgReturn(s, JNull, "time")


(***************************************************************************)
(* The world a handler acts on: all handlers, the dispatcher's awaiting    *)
(* set, the command's throttle map and the clock.                          *)
(***************************************************************************)
World(hs, aw, thr, t, cache) == [hs |-> hs, aw |-> aw, thr |-> thr, now |-> t, cache |-> cache]

\* `author.id + channelId`
AwaitKey(s) == <<s.author, s.chan>>

\* Context of the two channels: c1 is a guild text channel, c2 a direct message
InGuild(c) == c = "c1"

(***************************************************************************)
(* Command.throttle and the throttle's expiry timer.                       *)
(***************************************************************************)
NoThrottle == [has |-> FALSE, start |-> 0, usages |-> 0, gen |-> 0]

\* creates the user's throttle object on first use in a window
ThrottleGet(W, c, userId) ==
    IF ~c.throttling.on \/ W.thr[userId].has THEN W
    ELSE [W EXCEPT !.thr[userId] =
            [has |-> TRUE, start |-> W.now, usages |-> 0, gen |-> W.thr[userId].gen + 1]]

\* the timer set at creation deletes the entry `duration` seconds after start
ThrottleExpire(thr, c, t) ==
    [u \in DOMAIN thr |->
        IF thr[u].has /\ thr[u].start + c.throttling.duration * 1000 <= t
        THEN [thr[u] EXCEPT !.has = FALSE] ELSE thr[u]]

(***************************************************************************)
(* CommandoMessage.run after the collector returned (or without one):      *)
(* cancellation handling, then `if (throttle) throttle.usages++`.          *)
(***************************************************************************)
\* `throttle.usages++` on the object captured before the gates
ThrottleUse(W, h) ==
    LET s == W.hs[h]
        t == W.thr[s.author]
    IN  IF s.throttleGen # 0 /\ t.has /\ t.gen = s.throttleGen
        THEN [W EXCEPT !.thr[s.author].usages = @ + 1] ELSE W

\* the body is called without the collected values
RunInvoke_NoArgs(W, h, args) ==
    [ThrottleUse(W, h) EXCEPT !.hs[h].pc = "typing", !.hs[h].bodyArgs = <<>>]

\* `throttle.usages++`, sendTyping, then `command.run(this, args, fromPattern, collResult)`
RunInvoke(W, h, args) ==
    [ThrottleUse(W, h) EXCEPT !.hs[h].pc = "typing", !.hs[h].bodyArgs = args]

\* only a cancellation by the user stops the command
RunAfterCollect_OnlyUser(W, h) ==
    LET s == W.hs[h]
        r == s.collResult
    IN  IF r.cancelled = "user"
        THEN [W EXCEPT !.hs[h].pc = "replying", !.hs[h].outcome = "cancelled",
                       !.hs[h].nCancel = @ + 1, !.hs[h].cancelCause = r.cancelled]
        ELSE RunInvoke(W, h, r.values)

\* a cancellation is announced but the command is run all the same
RunAfterCollect_CancelThenRun(W, h) ==
    LET s == W.hs[h]
        r == s.collResult
    IN  IF r.cancelled # "null"
        THEN IF Len(r.prompts) = 0 \/ r.cancelled = "promptLimit"
             THEN [W EXCEPT !.hs[h].pc = "replying", !.hs[h].outcome = "formatError"]
             ELSE RunInvoke([W EXCEPT !.hs[h].nCancel = @ + 1,
                                      !.hs[h].cancelCause = r.cancelled], h, r.values)
        ELSE RunInvoke(W, h, r.values)

\* only a collection without prompts is reported as malformed usage
RunAfterCollect_FormatOnlyUnprompted(W, h) ==
    LET s == W.hs[h]
        r == s.collResult
    IN  IF r.cancelled # "null"
        THEN IF Len(r.prompts) = 0
             THEN [W EXCEPT !.hs[h].pc = "replying", !.hs[h].outcome = "formatError"]
             ELSE [W EXCEPT !.hs[h].pc = "replying", !.hs[h].outcome = "cancelled",
                            !.hs[h].nCancel = @ + 1, !.hs[h].cancelCause = r.cancelled]
        ELSE RunInvoke(W, h, r.values)

\* `if (collResult.cancelled) { ... }`, else `args = collResult.values` and the run
RunAfterCollect(W, h) ==
    LET s == W.hs[h]
        r == s.collResult
    IN  IF r.cancelled # "null"
        THEN IF Len(r.prompts) = 0 \/ r.cancelled = "promptLimit"
             THEN [W EXCEPT !.hs[h].pc = "replying", !.hs[h].outcome = "formatError"]
             ELSE [W EXCEPT !.hs[h].pc = "replying", !.hs[h].outcome = "cancelled",
                            !.hs[h].nCancel = @ + 1, !.hs[h].cancelCause = r.cancelled]
        ELSE RunInvoke(W, h, r.values)

(***************************************************************************)
(* ArgumentCollector.obtain.                                               *)
(***************************************************************************)
\* `results.map(res => res.prompts).flat()` and the same for answers
RECURSIVE FlatPrompts(_)
FlatPrompts(rs) == IF rs = <<>> THEN <<>> ELSE Head(rs).prompts \o FlatPrompts(Tail(rs))

RECURSIVE FlatAnswers(_)
FlatAnswers(rs) == IF rs = <<>> THEN <<>> ELSE Head(rs).answers \o FlatAnswers(Tail(rs))

\* an aggregate that keeps only the transcript of the last argument obtained
CollectorReturn_OnlyLast(W, h, values, cancelled) ==
    LET s == W.hs[h]
        last == s.argResults[Len(s.argResults)]
        W1 == [W EXCEPT !.aw = @ \ {AwaitKey(s)},
                        !.hs[h].registered = FALSE,
                        !.hs[h].collResult =
                            [has |-> TRUE, values |-> values, cancelled |-> cancelled,
                             prompts |-> IF s.argResults = <<>> THEN <<>> ELSE last.prompts,
                             answers |-> IF s.argResults = <<>> THEN <<>> ELSE last.answers]]
    IN  IF s.via = "collector" THEN [W1 EXCEPT !.hs[h].pc = "returned"]
        ELSE RunAfterCollect(W1, h)

\* the two `return` statements of the collector, after `_awaiting.delete(id)`
CollectorReturn(W, h, values, cancelled) ==
    LET s == W.hs[h]
        W1 == [W EXCEPT !.aw = @ \ {AwaitKey(s)},
                        !.hs[h].registered = FALSE,
                        !.hs[h].collResult =
                            [has |-> TRUE, values |-> values, cancelled |-> cancelled,
                             prompts |-> FlatPrompts(s.argResults),
                             answers |-> FlatAnswers(s.argResults)]]
    IN  IF s.via = "collector" THEN [W1 EXCEPT !.hs[h].pc = "returned"]
        ELSE RunAfterCollect(W1, h)

\* a catch block that rethrows without releasing the key
CollectorThrow_NoRelease(W, h) ==
    LET W1 == [W EXCEPT !.hs[h].registered = FALSE, !.hs[h].outcome = "threw"]
    IN  IF W.hs[h].via = "collector" THEN [W1 EXCEPT !.hs[h].pc = "returned"]
        ELSE [W1 EXCEPT !.hs[h] = Finished(@, "threw")]

\* the catch block: release the key and rethrow; run() does not catch it
CollectorThrow(W, h) ==
    LET W1 == [W EXCEPT !.aw = @ \ {AwaitKey(W.hs[h])},
                        !.hs[h].registered = FALSE,
                        !.hs[h].outcome = "threw"]
    IN  IF W.hs[h].via = "collector" THEN [W1 EXCEPT !.hs[h].pc = "returned"]
        ELSE [W1 EXCEPT !.hs[h] = Finished(@, "threw")]

RECURSIVE CollectFrom(_, _, _, _)
RECURSIVE AfterArg(_, _, _)

\* one iteration of the for loop, from `arg.obtain(...)` on
CollectFrom(W, h, c, i) ==
    LET s == W.hs[h]
    IN  IF i > Len(c.args) THEN CollectorReturn(W, h, s.collValues, "null")
        ELSE LET arg == c.args[i]
                 value == IF arg.infinite
                          THEN RArr(SubSeq(s.provided, i, Len(s.provided)))
                          ELSE IF i <= Len(s.provided) THEN RStr(s.provided[i]) ELSE RUndef
             IN  AfterArg([W EXCEPT !.hs[h] = ObtainStart([s EXCEPT !.i = i], arg, value, s.L)],
                          h, c)

\* the rest of the iteration once arg.obtain has returned
AfterArg(W, h, c) ==
    LET s == W.hs[h]
    IN  IF s.pc = "argThrew" THEN CollectorThrow(W, h)
        ELSE IF s.pc # "argRet" THEN W
        ELSE LET W1 == [W EXCEPT !.hs[h].argResults = Append(@, s.res)]
             IN  IF s.res.cancelled # "null"
                 THEN CollectorReturn(W1, h, <<>>, s.res.cancelled)
                 ELSE CollectFrom([W1 EXCEPT !.hs[h].collValues =
                                        Append(@, [key |-> c.args[s.i].key, value |-> s.res.value])],
                                  h, c, s.i + 1)

CollectorObtain(W, h, c, provided, promptLimit) ==
    CollectFrom([W EXCEPT !.aw = @ \cup {AwaitKey(W.hs[h])},
                          !.hs[h].registered = TRUE,
                          !.hs[h].provided = provided,
                          !.hs[h].L = promptLimit,
                          !.hs[h].argResults = <<>>,
                          !.hs[h].collValues = <<>>],
                h, c, 1)


(***************************************************************************)
(* CommandoMessage.run from its start to the collector.                    *)
(***************************************************************************)
\* Characters of an argument string: a letter, whitespace, the two straight quotes and
\* the smart quotes U+201C and U+2018 (written ldq and lsq)
DQ == "\""
SQ == "'"
SmartDQ == "ldq"
SmartSQ == "lsq"

\* what `match[2] || match[3]` is for an empty quoted run: undefined, no string
Undefined == <<"undefined">>

NotParsed ==
    [called |-> FALSE, argString |-> <<>>, argCount |-> 0, allowSingleQuote |-> TRUE,
     result |-> <<>>]

RemoveSmartQuotes(str, allowSingleQuote) ==
    [k \in 1..Len(str) |->
        IF str[k] = SmartDQ THEN DQ
        ELSE IF str[k] = SmartSQ /\ allowSingleQuote THEN SQ
        ELSE str[k]]

IsQuote(c, allowSingleQuote) == c = DQ \/ (allowSingleQuote /\ c = SQ)

\* the first index from i on that holds no whitespace, Len(str) + 1 when there is none
SkipSpace(str, i) ==
    LET rest == {k \in i..Len(str) : str[k] # " "}
    IN  IF rest = {} THEN Len(str) + 1 ELSE CHOOSE k \in rest : \A j \in rest : k <= j

\* the first index from i on that holds whitespace, Len(str) + 1 when there is none
SkipToken(str, i) ==
    LET rest == {k \in i..Len(str) : str[k] = " "}
    IN  IF rest = {} THEN Len(str) + 1 ELSE CHOOSE k \in rest : \A j \in rest : k <= j

\* regex.exec with lastIndex = i - 1: the quoted run or the run without whitespace that
\* starts at the first character that is no whitespace, and the whitespace after it
RegexExec(str, i, allowSingleQuote) ==
    LET j == SkipSpace(str, i)
        closing == {k \in (j + 1)..Len(str) : str[k] = str[j]}
        close == CHOOSE k \in closing : \A m \in closing : k <= m
        stop == SkipToken(str, j)
    IN  IF j > Len(str) THEN [found |-> FALSE, quoted |-> FALSE, text |-> <<>>, next |-> 1]
        ELSE IF IsQuote(str[j], allowSingleQuote) /\ closing # {}
            THEN [found |-> TRUE, quoted |-> TRUE, text |-> SubSeq(str, j + 1, close - 1),
                  next |-> SkipSpace(str, close + 1)]
        ELSE [found |-> TRUE, quoted |-> FALSE, text |-> SubSeq(str, j, stop - 1),
              next |-> SkipSpace(str, stop)]

\* `match[2] || match[3]`
MatchToken(m) == IF m.quoted /\ m.text = <<>> THEN Undefined ELSE m.text

\* the remaining text, `.replace(re2, '$2')`: quotes that wrap all of it are removed
Remainder(str, i, allowSingleQuote) ==
    LET rest == SubSeq(str, i, Len(str))
    IN  IF /\ Len(rest) >= 2 /\ IsQuote(rest[1], allowSingleQuote)
           /\ rest[Len(rest)] = rest[1]
        THEN SubSeq(rest, 2, Len(rest) - 1)
        ELSE rest

\* `while (--argCount && (match = regex.exec(...))) result.push(...)`, then the
\* remaining text when the last exec matched
RECURSIVE ParseLoop(_, _, _, _, _)
ParseLoop(str, i, argCount, allowSingleQuote, result) ==
    LET m == RegexExec(str, i, allowSingleQuote)
    IN  IF argCount - 1 = 0
        THEN IF i <= Len(str)
             THEN Append(result, Remainder(str, i, allowSingleQuote)) ELSE result
        ELSE IF ~m.found THEN result
        ELSE ParseLoop(str, m.next, argCount - 1, allowSingleQuote,
                       Append(result, MatchToken(m)))

\* CommandoMessage.parseArgs(argString, argCount, allowSingleQuote)
ParseArgs(argString, argCount, allowSingleQuote) ==
    LET str == RemoveSmartQuotes(argString, allowSingleQuote)
    IN  ParseLoop(str, 1, IF argCount = 0 THEN Len(str) ELSE argCount, allowSingleQuote, <<>>)

\* `Figure out the command arguments`: the collector when the command has one
RunCollect(W, h, c) ==
    IF c.args # <<>>
    THEN LET count == IF c.args[Len(c.args)].infinite THEN Infinity ELSE Len(c.args)
         IN  CollectorObtain(W, h, c, ParseArgs(W.hs[h].argString, count, TRUE),
                             c.promptLimit)
    ELSE RunInvoke(W, h, <<[key |-> "argString", value |-> JArr(W.hs[h].argString)]>>)

\* the context and permission gates, in the order run() evaluates them; the flags
\* describe the command (dmOnly, guildOnly, nsfw) and what the guild channel c1
\* grants (cannotSend, noUserPermission, clientMissing)
GateReason_ClientFirst(c, chan) ==
    IF InGuild(chan) /\ "cannotSend" \in c.flags THEN "cannotSend"
    ELSE IF InGuild(chan) /\ "dmOnly" \in c.flags THEN "dmOnly"
    ELSE IF "guildOnly" \in c.flags /\ ~InGuild(chan) THEN "guildOnly"
    ELSE IF "nsfw" \in c.flags /\ InGuild(chan) THEN "nsfw"
    ELSE IF InGuild(chan) /\ "clientMissing" \in c.flags THEN "clientPermissions"
    ELSE IF InGuild(chan) /\ "noUserPermission" \in c.flags THEN "userPermissions"
    ELSE ""

GateReason(c, chan) ==
    IF InGuild(chan) /\ "cannotSend" \in c.flags THEN "cannotSend"
    ELSE IF InGuild(chan) /\ "dmOnly" \in c.flags THEN "dmOnly"
    ELSE IF "guildOnly" \in c.flags /\ ~InGuild(chan) THEN "guildOnly"
    ELSE IF "nsfw" \in c.flags /\ InGuild(chan) THEN "nsfw"
    ELSE IF InGuild(chan) /\ "noUserPermission" \in c.flags THEN "userPermissions"
    ELSE IF InGuild(chan) /\ "clientMissing" \in c.flags THEN "clientPermissions"
    ELSE ""

\* the usage test off by one
Throttled_OffByOne(t, c) == c.throttling.on /\ t.usages + 1 >= c.throttling.usages

\* `throttle.usages + 1 > command.throttling.usages`
Throttled(t, c) == c.throttling.on /\ t.usages + 1 > c.throttling.usages

\* `throttle.start + duration * 1000 - Date.now()`, in milliseconds
Remaining(t, c, t0) == t.start + c.throttling.duration * 1000 - t0

RunStart(W, h, c) ==
    LET s == W.hs[h]
        reason == GateReason(c, s.chan)
        W1 == ThrottleGet(W, c, s.author)
        t == W1.thr[s.author]
        W2 == [W1 EXCEPT !.hs[h].throttleGen = IF c.throttling.on THEN t.gen ELSE 0]
    IN  IF reason = "cannotSend"
            THEN [W EXCEPT !.hs[h].pc = "replying", !.hs[h].outcome = "cannotSend"]
        ELSE IF reason # ""
            THEN [W EXCEPT !.hs[h].pc = "replying", !.hs[h].outcome = "blocked",
                           !.hs[h].nBlock = @ + 1, !.hs[h].blockReason = reason]
        ELSE IF Throttled(t, c)
            THEN [W2 EXCEPT !.hs[h].pc = "replying", !.hs[h].outcome = "blocked",
                            !.hs[h].nBlock = @ + 1, !.hs[h].blockReason = "throttling",
                            !.hs[h].remaining = Remaining(t, c, W.now)]
        ELSE IF c.deprecated THEN [W2 EXCEPT !.hs[h].pc = "notice"]
        ELSE RunCollect(W2, h, c)

(***************************************************************************)
(* CommandDispatcher.handleMessage up to its first suspension.             *)
(***************************************************************************)
\* the users that send messages: a human, another bot, and the client's own user
Authors == {"u1", "bot", "self"}
ClientUser == "self"
IsBot(author) == author \in {"bot", "self"}

\* a filter without the test on bot authors
ShouldHandleMessage_NoBotTest(aw, author, chan) == <<author, chan>> \notin aw

\* shouldHandleMessage for a new, complete message
ShouldHandleMessage(aw, author, chan) ==
    /\ ~(IsBot(author) \/ author = ClientUser)
    /\ <<author, chan>> \notin aw

\* What one inhibitor returns for a message: a falsy value, a reason string, an
\* Inhibition object (a reason and a response promise), or a truthy value that is neither
InhibitorResults == {"falsy", "string", "object", "invalid"}

\* addInhibitor: the inhibitors are a Set, iterated in insertion order
AddInhibitor(inhibitors, f) ==
    IF \E k \in DOMAIN inhibitors : inhibitors[k] = f THEN inhibitors
    ELSE Append(inhibitors, f)

\* the loop of inhibit() from the k-th registered inhibitor on, results[k] being what
\* that inhibitor returns: the inhibitors called so far and the one that ended the loop
Inhibit_Last(rets, k, calls) ==
    LET truthy == {j \in DOMAIN rets : rets[j] # "falsy"}
        last == CHOOSE j \in truthy : \A i \in truthy : i <= j
    IN  IF truthy = {} THEN [calls |-> [j \in DOMAIN rets |-> j], by |-> 0, kind |-> "falsy"]
        ELSE [calls |-> [j \in DOMAIN rets |-> j], by |-> last, kind |-> rets[last]]
RECURSIVE Inhibit(_, _, _)
Inhibit(rets, k, calls) ==
    IF k > Len(rets) THEN [calls |-> calls, by |-> 0, kind |-> "falsy"]
    ELSE IF rets[k] # "falsy"
        THEN [calls |-> Append(calls, k), by |-> k, kind |-> rets[k]]
    ELSE Inhibit(rets, k + 1, Append(calls, k))

\* fate: what each registered inhibitor returns for this message, in registration
\* order, and whether the command is enabled in the guild
Fate(rets, enabled) == [results |-> rets, enabled |-> enabled]
RunFate == Fate(<<>>, TRUE)
InhibitedFate == Fate(<<"string">>, TRUE)
DisabledFate == Fate(<<>>, FALSE)

HandleMessage(W, h, c, id, author, chan, argString, fate) ==
    LET inh == Inhibit(fate.results, 1, <<>>)
        W1 == [W EXCEPT !.hs[h] = [IdleHandler EXCEPT !.via = "run", !.msgId = id,
                                                       !.author = author,
                                                       !.chan = chan, !.argString = argString,
                                                       !.inhibitResults = fate.results,
                                                       !.enabledIn = fate.enabled,
                                                       !.inhibitCalls = inh.calls]]
    IN  IF inh.kind = "invalid"
            THEN [W1 EXCEPT !.hs[h] = Finished(@, "inhibitorThrew")]
        ELSE IF inh.kind = "string"
            THEN [W1 EXCEPT !.hs[h].pc = "replying", !.hs[h].outcome = "inhibited",
                            !.hs[h].nBlock = @ + 1, !.hs[h].blockReason = "inhibitor",
                            !.hs[h].blockBy = inh.by]
        ELSE IF inh.kind = "object"
            THEN [W1 EXCEPT !.hs[h].pc = "replying", !.hs[h].outcome = "inhibitedReplied",
                            !.hs[h].nBlock = @ + 1, !.hs[h].blockReason = "inhibitor",
                            !.hs[h].blockBy = inh.by]
        ELSE IF ~fate.enabled
            THEN [W1 EXCEPT !.hs[h].pc = "replying", !.hs[h].outcome = "disabled"]
        ELSE RunStart(W1, h, c)

(***************************************************************************)
(* Steps shared by every specification: a prompt is sent (or fails to be), *)
(* the wait for a reply times out, the user sends a message.               *)
(***************************************************************************)
Cur == World(handlers, awaiting, throttles, now, results)

Apply(W) ==
    /\ handlers' = W.hs
    /\ awaiting' = W.aw
    /\ throttles' = W.thr
    /\ results' = W.cache

\* answers consumed so far by the collector call of handler record s
AnswersOf(s) == Len(FlatAnswers(s.argResults)) + Len(s.answers)

\* message.replyEmbed(prompt) resolved
PromptSent(h) ==
    /\ handlers[h].pc = "prompt"
    /\ handlers' = [handlers EXCEPT ![h] = ObtainPromptSent(@)]
    /\ UNCHANGED <<awaiting, throttles, now, cmd, options, registry, parsed, cmdMsg, nEvents, ctor, results, invite, guild, validation, stored>>

\* message.replyEmbed(prompt) rejected: arg.obtain throws inside the collector
PromptFails(h) ==
    /\ handlers[h].pc = "prompt"
    /\ Apply(CollectorThrow(Cur, h))
    /\ UNCHANGED <<now, cmd, options, registry, parsed, cmdMsg, nEvents, ctor, invite, guild, validation, stored>>

\* channel.awaitMessages resolved empty; only armed when `wait` is a positive finite number
Timeout(h) ==
    /\ handlers[h].pc = "await"
    /\ cmd.args[handlers[h].i].wait > 0
    /\ cmd.args[handlers[h].i].wait # Infinity
    /\ Apply(AfterArg([Cur EXCEPT !.hs[h] = ObtainTimeout(@)], h, cmd))
    /\ UNCHANGED <<now, cmd, options, registry, parsed, cmdMsg, nEvents, ctor, invite, guild, validation, stored>>

\* the handlers whose awaitMessages collector accepts a message of `author` in `chan`
Recipients(hs, author, chan) ==
    {h \in DOMAIN hs : hs[h].pc = "await" /\ hs[h].author = author /\ hs[h].chan = chan}

DeliverOne(W, h, text) ==
    AfterArg([W EXCEPT !.hs[h] = ObtainReply(@, cmd.args[W.hs[h].i], W.hs[h].L, text)], h, cmd)

RECURSIVE Deliver(_, _, _)
Deliver(W, recips, text) ==
    IF recips = {} THEN W
    ELSE LET h == CHOOSE x \in recips : \A y \in recips : x <= y
         IN  Deliver(DeliverOne(W, h, text), recips \ {h}, text)

ReplyTexts == {S_3, S_4, S_9, S_x, S_cancel, S_Cancel, S_finish, S_empty}

\* the user sends a message that is not a command while a prompt is outstanding
UserReply(author, chan, text) ==
    LET recips == Recipients(handlers, author, chan)
    IN  /\ recips # {}
        /\ \A h \in recips : AnswersOf(handlers[h]) < MaxAnswers
        /\ Apply(Deliver(Cur, recips, text))
        /\ UNCHANGED <<now, cmd, options, registry, parsed, cmdMsg, nEvents, ctor, invite, guild, validation, stored>>

(***************************************************************************)
(* The responses of a CommandoMessage: per channel id (the channel's, or   *)
(* DM) the list of responses and the position of the last one edited.      *)
(***************************************************************************)
ResponseChannels == {"c1", "DM"}

\* a message that was not handled yet; responses and responsePositions are empty Maps
NewCmdMsg ==
    [phase |-> "idle", content |-> "none", handled |-> 0,
     update |-> FALSE, previous |-> "none", ran |-> FALSE, returned |-> "none",
     has |-> {}, responses |-> [c \in ResponseChannels |-> <<>>],
     positions |-> [c \in ResponseChannels |-> -1],
     prior |-> [c \in ResponseChannels |-> <<>>],
     produced |-> <<>>, deleted |-> {}, nextId |-> 1, timer |-> FALSE]

\* the Maps of a CommandoMessage that parseMessage has just built
FreshResponses(m) ==
    [m EXCEPT !.has = {}, !.responses = [c \in ResponseChannels |-> <<>>],
              !.positions = [c \in ResponseChannels |-> -1]]

\* editCurrentResponse(id, options): the response at the next position is edited, or a
\* new message is sent when there is none
EditCurrentResponse(m, id) ==
    LET pos == m.positions[id] + 1
        reuse == pos + 1 <= Len(m.responses[id])
        response == IF reuse THEN m.responses[id][pos + 1] ELSE m.nextId
    IN  [m EXCEPT !.has = @ \cup {id}, !.positions[id] = pos,
                  !.produced = Append(@, [channel |-> id, id |-> response]),
                  !.nextId = IF reuse THEN @ ELSE @ + 1]

\* the responses of one channel from the array index `from` on
ResponsesFrom(m, c, from) ==
    {m.responses[c][i + 1] : i \in {j \in 0..(Len(m.responses[c]) - 1) : j >= from}}

\* deleteRemainingResponses: `if (!pos) continue`, then the responses after pos
DeleteRemainingResponses(m) ==
    [m EXCEPT !.deleted = @ \cup
        UNION {ResponsesFrom(m, c, m.positions[c] + 1) :
                  c \in {d \in m.has : m.positions[d] # 0}}]

\* channelIdOrDM(channel) of lib/extensions/message.js (build "lib") and of the
\* TypeScript source of the same class (build "src")
channelIdOrDM(channel, build) ==
    IF build = "lib" THEN (IF channel.dm THEN channel.id ELSE "DM")
    ELSE (IF ~channel.dm THEN channel.id ELSE "DM")

\* the keys a response can be stored under
ResponseKeys == {"c1", "c2", "d1", "DM"}

\* a command message without responses: sent holds the channels of the responses
\* its run has produced, responses those finalize stored under each key
NewStored(build) ==
    [build |-> build, phase |-> "running", sent |-> <<>>,
     responses |-> [k \in ResponseKeys |-> <<>>]]

\* finalize(responses) for the list of responses the run returned:
\* _responses.clear(), then each response is pushed under channelIdOrDM(channel)
FinalizeKeys(st) ==
    [st EXCEPT !.phase = "done",
               !.responses = [k \in ResponseKeys |->
                   SelectSeq(st.sent, LAMBDA c : channelIdOrDM(c, st.build) = k)]]

\* the responses of one channel among those the run returned
ResponsesIn(produced, c) ==
    LET sel == SelectSeq(produced, LAMBDA r : r.channel = c)
    IN  [k \in 1..Len(sel) |-> sel[k].id]

\* finalize(responses), responses being null or the list the run returned
Finalize(m, returned) ==
    IF returned = "null" THEN m
    ELSE LET m1 == DeleteRemainingResponses(m)
         IN  [m1 EXCEPT !.has = {m.produced[k].channel : k \in DOMAIN m.produced},
                        !.responses = [c \in ResponseChannels |-> ResponsesIn(m.produced, c)],
                        !.positions = [c \in ResponseChannels |-> -1]]

\* cacheCommandoMessage for the message id 1
CacheCommandoMessage(cache, isUpdate, hasCmdMsg, returned, opts) ==
    IF opts.commandEditableDuration <= 0 THEN cache
    ELSE IF ~hasCmdMsg /\ ~opts.nonCommandEditable THEN cache
    ELSE IF returned # "null" /\ hasCmdMsg THEN cache \cup {1}
    ELSE cache \ {1}

(***************************************************************************)
(* CommandoRegistry: the registered groups, commands and argument types,   *)
(* in insertion order, and the outcome of the most recent call.            *)
(***************************************************************************)
N_fin == <<"f", "i", "n">>
N_Fin == <<"F", "i", "n">>
N_FIN == <<"F", "I", "N">>
N_in == <<"i", "n">>
N_final == <<"f", "i", "n", "a", "l">>
N_Finals == <<"F", "i", "n", "a", "l", "s">>
N_line == <<"l", "i", "n", "e">>
N_Line == <<"L", "i", "n", "e">>

EmptyRegistry ==
    [groups |-> <<>>, commands |-> <<>>, types |-> {}, unknownCommand |-> FALSE,
     op |-> "", threw |-> FALSE, search |-> <<>>, exact |-> FALSE, found |-> <<>>, calls |-> 0]

\* String.prototype.includes
Includes(str, sub) ==
    \E i \in 0..(Len(str) - Len(sub)) : SubSeq(str, i + 1, i + Len(sub)) = sub

HasAlias(c, name) == \E k \in DOMAIN c.aliases : c.aliases[k] = name
NameOrAlias(c, name) == c.name = name \/ HasAlias(c, name)
MemberKey(c) == c.groupId \o <<":">> \o c.memberName

\* registerGroup: a group whose id is registered is renamed, any other is added
RegisterGroupIn(reg, g) ==
    IF \E k \in DOMAIN reg.groups : reg.groups[k].id = g.id
    THEN [reg EXCEPT !.groups = [k \in DOMAIN reg.groups |->
                                    IF reg.groups[k].id = g.id
                                    THEN [reg.groups[k] EXCEPT !.name = g.name]
                                    ELSE reg.groups[k]],
                     !.op = "registerGroup", !.threw = FALSE]
    ELSE [reg EXCEPT !.groups = Append(@, g), !.op = "registerGroup", !.threw = FALSE]

\* the conflicts registerCommand throws for
CommandConflict(reg, c) ==
    \/ \E k \in DOMAIN reg.commands : NameOrAlias(reg.commands[k], c.name)
    \/ \E a \in DOMAIN c.aliases, k \in DOMAIN reg.commands :
            NameOrAlias(reg.commands[k], c.aliases[a])
    \/ ~\E k \in DOMAIN reg.groups : reg.groups[k].id = c.groupId
    \/ \E k \in DOMAIN reg.commands :
            /\ reg.commands[k].groupId = c.groupId
            /\ reg.commands[k].memberName = c.memberName
    \/ c.unknown /\ reg.unknownCommand

RegisterCommandIn(reg, c) ==
    IF CommandConflict(reg, c)
    THEN [reg EXCEPT !.op = "registerCommand", !.threw = TRUE]
    ELSE [reg EXCEPT !.commands = Append(@, c),
                     !.unknownCommand = @ \/ c.unknown,
                     !.op = "registerCommand", !.threw = FALSE]

\* reregisterCommand(command, oldCommand), oldCommand being the k-th registered
\* command: name, group and memberName must not change; the Map entry is replaced
ReregisterCommandIn(reg, c, k) ==
    LET old == reg.commands[k]
    IN  IF \/ c.name # old.name \/ c.groupId # old.groupId \/ c.memberName # old.memberName
           \/ (c.unknown /\ ~old.unknown)
        THEN [reg EXCEPT !.op = "reregisterCommand", !.threw = TRUE]
        ELSE [reg EXCEPT !.commands[k] = c, !.unknownCommand = c.unknown \/ (@ /\ ~old.unknown),
                         !.op = "reregisterCommand", !.threw = FALSE]

\* unregisterCommand(command) for the k-th registered command
UnregisterCommandIn(reg, k) ==
    [reg EXCEPT !.commands = SubSeq(@, 1, k - 1) \o SubSeq(@, k + 1, Len(@)),
                !.unknownCommand = @ /\ ~reg.commands[k].unknown,
                !.op = "unregisterCommand", !.threw = FALSE]

RegisterTypeIn(reg, id) ==
    IF id \in reg.types
    THEN [reg EXCEPT !.op = "registerType", !.threw = TRUE]
    ELSE [reg EXCEPT !.types = @ \cup {id}, !.op = "registerType", !.threw = FALSE]

CommandFilterExact(c, search) == NameOrAlias(c, search) \/ MemberKey(c) = search

CommandFilterInexact(c, search) ==
    \/ Includes(c.name, search)
    \/ MemberKey(c) = search
    \/ \E k \in DOMAIN c.aliases : Includes(c.aliases[k], search)

GroupFilterExact(g, search) == g.id = search \/ ToLowerCase(g.name) = search

GroupFilterInexact(g, search) ==
    Includes(g.id, search) \/ Includes(ToLowerCase(g.name), search)

\* the first element of a list that passes a test, alone; the list when none does
FirstOrAll(matched, hits) ==
    IF hits = {} THEN matched
    ELSE <<matched[CHOOSE k \in hits : \A j \in hits : k <= j]>>

\* the inexact search without the test for an exact match
FindCommands_NoExactTest(commands, searchString, exact) ==
    IF searchString = <<>> THEN commands
    ELSE LET lcSearch == ToLowerCase(searchString)
         IN  SelectSeq(commands, LAMBDA c : IF exact THEN CommandFilterExact(c, lcSearch)
                                            ELSE CommandFilterInexact(c, lcSearch))

\* findCommands(searchString, exact) without a context
FindCommands(commands, searchString, exact) ==
    IF searchString = <<>> THEN commands
    ELSE LET lcSearch == ToLowerCase(searchString)
             matched == SelectSeq(commands,
                            LAMBDA c : IF exact THEN CommandFilterExact(c, lcSearch)
                                       ELSE CommandFilterInexact(c, lcSearch))
         IN  IF exact THEN matched
             ELSE FirstOrAll(matched,
                             {k \in DOMAIN matched : NameOrAlias(matched[k], lcSearch)})

FindGroups(groups, searchString, exact) ==
    IF searchString = <<>> THEN groups
    ELSE LET lcSearch == ToLowerCase(searchString)
             matched == SelectSeq(groups,
                            LAMBDA g : IF exact THEN GroupFilterExact(g, lcSearch)
                                       ELSE GroupFilterInexact(g, lcSearch))
         IN  IF exact THEN matched
             ELSE FirstOrAll(matched,
                             {k \in DOMAIN matched :
                                 \/ ToLowerCase(matched[k].name) = lcSearch
                                 \/ matched[k].id = lcSearch})

(***************************************************************************)
(* Specification SpecObtain: ArgumentCollector.obtain called directly on a *)
(* collector of one integer argument.                                      *)
(***************************************************************************)
NoThrottling == [on |-> FALSE, usages |-> 0, duration |-> 0]

Command(args, promptLimit, deprecated, throttling, flags) ==
    [args |-> args, promptLimit |-> promptLimit, deprecated |-> deprecated,
     throttling |-> throttling, flags |-> flags]

ArgInfos ==
    {ArgInfo("n", d[1], d[2], inf) :
        d \in {<<"absent", "absent">>, <<"literal", "absent">>, <<"function", "absent">>,
               <<"null", "absent">>, <<"zero", "absent">>, <<"literal", "true">>,
               <<"absent", "false">>},
        inf \in BOOLEAN}

ProvidedTokens == {S_3, S_9, S_x}
ProvidedLists == {<<>>} \cup {<<a>> : a \in ProvidedTokens}
                   \cup {<<a, b>> : a \in ProvidedTokens, b \in ProvidedTokens}

Users == {"u1"}

\* info.wait: the default of 30 seconds, or 0 for no time limit
Waits == {DefaultWait, 0}

WithWait(info, w) == [info EXCEPT !.wait = w]

\* client options: commands are editable for 30 seconds, or not at all
(***************************************************************************)
(* InviteArgumentType: one instance is shared by every argument of type    *)
(* invite; validate caches the invite it fetched, parse takes it.          *)
(***************************************************************************)
\* client.fetchInvite(value): the invite named by the value, null for "bad"
FetchInvite(value) == IF value = "bad" THEN "null" ELSE value

\* the type after construction, and two obtain cycles that have not started
NewInviteType ==
    [fetchedInvite |-> "null",
     cycles |-> [k \in 1..2 |-> [pc |-> "idle", value |-> "none", result |-> "none"]]]

\* validate(value) up to `await this.client.fetchInvite(value)`
InviteValidate(t, k, value) ==
    [t EXCEPT !.cycles[k] = [pc |-> "fetching", value |-> value, result |-> "none"]]

\* the fetch settled: `this.fetchedInvite = invite; return !!invite`; an invalid
\* value makes obtain prompt for another one
InviteFetched(t, k) ==
    LET fetched == FetchInvite(t.cycles[k].value)
    IN  [t EXCEPT !.fetchedInvite = fetched,
                  !.cycles[k].pc = IF fetched # "null" THEN "validated" ELSE "idle"]

\* parse(value): the cached invite is taken and cleared, else the value is fetched
InviteParse(t, k) ==
    IF t.fetchedInvite # "null"
    THEN [t EXCEPT !.fetchedInvite = "null", !.cycles[k].pc = "parsed",
                   !.cycles[k].result = t.fetchedInvite]
    ELSE [t EXCEPT !.cycles[k].pc = "refetching"]

\* `return await this.client.fetchInvite(value)` settled
InviteRefetched(t, k) ==
    [t EXCEPT !.cycles[k].pc = "parsed", !.cycles[k].result = FetchInvite(t.cycles[k].value)]

\* the names of the groups and commands registered for the guild: the group
\* util, the guarded group core, and the commands ping and util
GuildGroups == {[id |-> "util", guarded |-> FALSE], [id |-> "core", guarded |-> TRUE]}
GuildCommands == {[name |-> "ping", guarded |-> FALSE], [name |-> "util", guarded |-> FALSE],
                  [name |-> "core", guarded |-> TRUE]}
GuildKeys == {"util", "core", "ping"}

\* a guild's command and group statuses after construction: two empty Maps;
\* globalEnabled is what isEnabledIn(null) of a command or group returns, and
\* call the most recent call on the guild with its result
NewGuild ==
    [commandsEnabled |-> [k \in GuildKeys |-> "unset"],
     groupsEnabled |-> [k \in GuildKeys |-> "unset"],
     globalEnabled |-> TRUE,
     call |-> [op |-> "none", target |-> "none", enabled |-> TRUE, result |-> "none"]]

Status(enabled) == IF enabled THEN "true" ELSE "false"

\* guild.setCommandEnabled(command, enabled)
SetCommandEnabled(g, command, enabled) ==
    IF command.guarded
    THEN [g EXCEPT !.call = [op |-> "setCommandEnabled", target |-> command.name,
                             enabled |-> enabled, result |-> "threw"]]
    ELSE [g EXCEPT !.commandsEnabled[command.name] = Status(enabled),
                   !.call = [op |-> "setCommandEnabled", target |-> command.name,
                             enabled |-> enabled, result |-> "done"]]

\* guild.setGroupEnabled(group, enabled)
SetGroupEnabled(g, group, enabled) ==
    IF group.guarded
    THEN [g EXCEPT !.call = [op |-> "setGroupEnabled", target |-> group.id,
                             enabled |-> enabled, result |-> "threw"]]
    ELSE [g EXCEPT !.groupsEnabled[group.id] = Status(enabled),
                   !.call = [op |-> "setGroupEnabled", target |-> group.id,
                             enabled |-> enabled, result |-> "done"]]

\* guild.isCommandEnabled(command)
IsCommandEnabled(g, command) ==
    IF command.guarded THEN TRUE
    ELSE IF g.commandsEnabled[command.name] = "unset" THEN g.globalEnabled
    ELSE g.commandsEnabled[command.name] = "true"

\* guild.isGroupEnabled(group): `const groupEnabled = this._commandsEnabled.get(id)`
IsGroupEnabled(g, group) ==
    IF group.guarded THEN TRUE
    ELSE IF g.commandsEnabled[group.id] = "unset" THEN g.globalEnabled
    ELSE g.commandsEnabled[group.id] = "true"

Editable == [commandEditableDuration |-> CommandEditableDuration, nonCommandEditable |-> TRUE]
NotEditable == [commandEditableDuration |-> 0, nonCommandEditable |-> TRUE]

InitClient ==
    /\ handlers = [h \in Handlers |-> IdleHandler]
    /\ awaiting = {}
    /\ throttles = [u \in Users |-> NoThrottle]
    /\ now = 0
    /\ nEvents = 0
    /\ results = {}
    /\ registry = EmptyRegistry
    /\ invite = NewInviteType
    /\ validation = NoValidation
    /\ ctor = [args |-> <<>>, called |-> FALSE, threw |-> FALSE, error |-> "", built |-> <<>>]

InitDispatcher ==
    /\ InitClient
    /\ guild = NewGuild
    /\ stored = NewStored("lib")

InitCommon ==
    /\ InitDispatcher
    /\ parsed = NotParsed
    /\ cmdMsg = NewCmdMsg

InitObtain ==
    /\ InitCommon
    /\ options = Editable
    /\ cmd \in {Command(<<WithWait(a, w)>>, L, FALSE, NoThrottling, {}) :
                    a \in ArgInfos, w \in Waits, L \in (0..MaxPromptLimit) \cup {Infinity}}

\* collector.obtain(msg, provided)
CallObtain(chan, provided) ==
    /\ handlers[1].pc = "idle"
    /\ Apply(CollectorObtain([Cur EXCEPT !.hs[1].via = "collector", !.hs[1].chan = chan],
                             1, cmd, provided, cmd.promptLimit))
    /\ UNCHANGED <<now, cmd, options, registry, parsed, cmdMsg, nEvents, ctor, invite, guild, validation, stored>>

NextObtain ==
    \/ \E provided \in ProvidedLists : CallObtain("c1", provided)
    \/ PromptSent(1)
    \/ PromptFails(1)
    \/ Timeout(1)
    \/ \E text \in ReplyTexts : UserReply("u1", "c1", text)

SpecObtain == InitObtain /\ [][NextObtain]_vars

\* a required and an optional argument, single and infinite, with and without time limit
InitObtainLive ==
    /\ InitCommon
    /\ options = Editable
    /\ cmd \in {Command(<<WithWait(ArgInfo("n", d, "absent", inf), w)>>, L, FALSE,
                          NoThrottling, {}) :
                    d \in {"absent", "literal"}, inf \in BOOLEAN, w \in Waits,
                    L \in {MaxPromptLimit, Infinity}}

\* the timer of awaitMessages fires when it is armed and no message arrives first
SpecObtainLive == InitObtainLive /\ [][NextObtain]_vars /\ WF_vars(Timeout(1))


(***************************************************************************)
(* Specification Spec: the dispatcher handling the messages of one user in *)
(* a guild channel and a direct message, for one registered command.       *)
(***************************************************************************)
\* content of the message `!e <argString>`
Content(argString) ==
    <<"!", "e">> \o (IF argString = <<>> THEN <<>> ELSE <<" ">> \o argString)

ArgStrings == {<<>>, S_3}
Fates == {RunFate, InhibitedFate, DisabledFate}

Free(hs) == {h \in DOMAIN hs : hs[h].pc \in {"idle", "done"}}

\* the id of the next message; only cacheCommandoMessage reads a message's id, so it
\* is left 0 when the client does not cache command messages
MessageId == IF options.commandEditableDuration > 0 THEN nEvents + 1 ELSE 0

\* messageCreate for a command message: the dispatcher's listener runs first, then
\* the message collectors waiting in the channel receive the message
UserCommand(author, chan, argString, fate) ==
    LET recips == Recipients(handlers, author, chan)
        handle == ShouldHandleMessage(awaiting, author, chan)
        h == CHOOSE x \in Free(handlers) : \A y \in Free(handlers) : x <= y
        W1 == IF handle
              THEN HandleMessage(Cur, h, cmd, MessageId, author, chan, argString, fate)
              ELSE Cur
    IN  /\ nEvents < MaxEvents
        /\ handle => Free(handlers) # {}
        /\ ~handle => fate = RunFate
        /\ \A r \in recips : AnswersOf(handlers[r]) < MaxAnswers
        /\ Apply(Deliver(W1, recips, Content(argString)))
        /\ nEvents' = nEvents + 1
        /\ UNCHANGED <<now, cmd, options, registry, parsed, cmdMsg, ctor, invite, guild, validation, stored>>

\* the deprecation notice has been sent
NoticeSent(h) ==
    /\ handlers[h].pc = "notice"
    /\ Apply(RunCollect(Cur, h, cmd))
    /\ UNCHANGED <<now, cmd, options, registry, parsed, cmdMsg, nEvents, ctor, invite, guild, validation, stored>>

BodyBehaviours == {"syncThrow", "async"}
BodyResults == {"ok", "invalidType", "friendly", "error"}

\* sendTyping settled: `command.run(...)` is called, commandRun is emitted
TypingDone(h, behaviour) ==
    /\ handlers[h].pc = "typing"
    /\ handlers' = [handlers EXCEPT ![h] =
            IF behaviour = "syncThrow"
            THEN [@ EXCEPT !.bodyCalls = @ + 1, !.nError = @ + 1, !.onErrorCalls = @ + 1,
                           !.pc = "replying", !.outcome = "error"]
            ELSE [@ EXCEPT !.bodyCalls = @ + 1, !.nRun = @ + 1, !.pc = "body"]]
    /\ UNCHANGED <<awaiting, throttles, now, cmd, options, registry, parsed, cmdMsg, nEvents, ctor, results, invite, guild, validation, stored>>

\* the promise of the command body settled; "ok" is a resolution with a Message
BodyDone(h, result) ==
    /\ handlers[h].pc = "body"
    /\ handlers' = [handlers EXCEPT ![h] =
            IF result = "ok" THEN Finished(@, "ran")
            ELSE IF result = "friendly"
                THEN [@ EXCEPT !.nError = @ + 1, !.pc = "replying", !.outcome = "friendlyError"]
            ELSE [@ EXCEPT !.nError = @ + 1, !.onErrorCalls = @ + 1,
                           !.pc = "replying", !.outcome = "error"]]
    /\ results' = IF result = "ok" THEN CacheResult(results, handlers[h], "ran", options) ELSE results
    /\ UNCHANGED <<awaiting, throttles, now, cmd, options, registry, parsed, cmdMsg, nEvents, ctor, invite, guild, validation, stored>>

\* the final reply, onBlock or onError settled: run() returns to handleMessage
ReplyDone(h) ==
    /\ handlers[h].pc = "replying"
    /\ handlers' = [handlers EXCEPT ![h] = Finished(@, @.outcome)]
    /\ results' = CacheResult(results, handlers[h], handlers[h].outcome, options)
    /\ UNCHANGED <<awaiting, throttles, now, cmd, options, registry, parsed, cmdMsg, nEvents, ctor, invite, guild, validation, stored>>

\* time passes; a throttle whose window ended is deleted by its timer
Tick ==
    /\ cmd.throttling.on
    /\ now < MaxTicks * TickMs
    /\ now' = now + TickMs
    /\ throttles' = ThrottleExpire(throttles, cmd, now + TickMs)
    /\ UNCHANGED <<handlers, awaiting, cmd, options, registry, parsed, cmdMsg, nEvents, ctor, results, invite, guild, validation, stored>>

RequiredInt == ArgInfo("n", "absent", "absent", FALSE)
Throttling(u, d) == [on |-> TRUE, usages |-> u, duration |-> d]

SpecReplyTexts == {S_3, S_9, S_cancel}

SpecCommands ==
    {Command(<<RequiredInt>>, 1, dep, NoThrottling, {}) : dep \in BOOLEAN}
    \cup {Command(<<>>, Infinity, FALSE, Throttling(u, 1), {}) : u \in {1, 2}}
    \cup {Command(<<>>, Infinity, FALSE, NoThrottling, {f}) : f \in {"cannotSend", "dmOnly"}}

Init ==
    /\ InitCommon
    /\ options = NotEditable
    /\ cmd \in SpecCommands

Next ==
    \/ \E chan \in Channels, a \in ArgStrings, fate \in Fates : UserCommand("u1", chan, a, fate)
    \/ \E chan \in Channels, text \in SpecReplyTexts : UserReply("u1", chan, text)
    \/ \E h \in Handlers : NoticeSent(h)
    \/ \E h \in Handlers : PromptSent(h)
    \/ \E h \in Handlers : PromptFails(h)
    \/ \E h \in Handlers : Timeout(h)
    \/ \E h \in Handlers, b \in BodyBehaviours : TypingDone(h, b)
    \/ \E h \in Handlers, r \in BodyResults : BodyDone(h, r)
    \/ \E h \in Handlers : ReplyDone(h)
    \/ Tick

Spec == Init /\ [][Next]_vars


(***************************************************************************)
(* Specification SpecCollect: ArgumentCollector.obtain called directly on  *)
(* collectors of two and three integer arguments.                          *)
(***************************************************************************)
FirstArg == ArgInfo("a", "absent", "absent", FALSE)

SecondArgs ==
    {ArgInfo("b", "absent", "absent", FALSE), ArgInfo("b", "literal", "absent", FALSE)}

LastArgs == {ArgInfo("c", "absent", "absent", inf) : inf \in BOOLEAN}

InitCollect ==
    /\ InitCommon
    /\ options = Editable
    /\ cmd \in {Command(args, L, FALSE, NoThrottling, {}) :
                    args \in {<<FirstArg, c>> : c \in LastArgs}
                              \cup {<<FirstArg, b, c>> : b \in SecondArgs, c \in LastArgs},
                    L \in {MaxPromptLimit, Infinity}}

SpecCollect == InitCollect /\ [][NextObtain]_vars


(***************************************************************************)
(* Specification SpecPrompt: the user sends `!e` without argument text for *)
(* a command with one required integer argument and answers the prompts.   *)
(***************************************************************************)
InitPrompt ==
    /\ InitCommon
    /\ options = Editable
    /\ cmd \in {Command(<<RequiredInt>>, L, FALSE, NoThrottling, {}) :
                    L \in (0..MaxPromptLimit) \cup {Infinity}}

\* a valid reply, an invalid one and the cancellation word
PromptReplyTexts == {S_3, S_x, S_cancel}

NextPrompt ==
    \/ \E author \in Authors, fate \in Fates : UserCommand(author, "c1", <<>>, fate)
    \/ \E text \in PromptReplyTexts : UserReply("u1", "c1", text)
    \/ \E h \in Handlers : PromptSent(h)
    \/ \E h \in Handlers : PromptFails(h)
    \/ \E h \in Handlers : Timeout(h)
    \/ \E h \in Handlers, b \in BodyBehaviours : TypingDone(h, b)
    \/ \E h \in Handlers, r \in BodyResults : BodyDone(h, r)
    \/ \E h \in Handlers : ReplyDone(h)

SpecPrompt == InitPrompt /\ [][NextPrompt]_vars


(***************************************************************************)
(* Specification SpecCtor: the ArgumentCollector constructor applied to    *)
(* lists of argument infos.                                                *)
(***************************************************************************)
\* the checks without the one on infinite arguments
CtorCheck_NoInfinite(hasInfinite, hasOptional, info) ==
    IF info.default = "null" /\ hasOptional
        THEN "Required arguments may not come after optional arguments."
    ELSE ""

\* the checks at the head of one loop iteration; "" when none throws
CtorCheck(hasInfinite, hasOptional, info) ==
    IF hasInfinite THEN "No other argument may come after an infinite argument."
    ELSE IF info.default = "null" /\ hasOptional
        THEN "Required arguments may not come after optional arguments."
    ELSE ""

\* `if (args[i].default !== null) hasOptional = true`: a missing key is undefined, not null
CtorHasOptional(hasOptional, info) == hasOptional \/ info.default # "null"

RECURSIVE CtorLoop(_, _, _, _)
CtorLoop(args, i, hasInfinite, hasOptional) ==
    IF i > Len(args) THEN [threw |-> FALSE, error |-> "", built |-> args]
    ELSE LET err == CtorCheck(hasInfinite, hasOptional, args[i])
         IN  IF err # "" THEN [threw |-> TRUE, error |-> err, built |-> <<>>]
             ELSE CtorLoop(args, i + 1, hasInfinite \/ args[i].infinite,
                           CtorHasOptional(hasOptional, args[i]))

CtorInfos ==
    {ArgInfo("k", d, "absent", inf) : d \in {"absent", "null", "literal"}, inf \in BOOLEAN}

RECURSIVE SeqsUpTo(_, _)
SeqsUpTo(S, n) ==
    IF n = 0 THEN {<<>>}
    ELSE LET shorter == SeqsUpTo(S, n - 1)
         IN  shorter \cup {Append(q, x) : q \in {z \in shorter : Len(z) = n - 1}, x \in S}

InitCtor ==
    /\ InitCommon
    /\ options = Editable
    /\ cmd = Command(<<>>, Infinity, FALSE, NoThrottling, {})

\* new ArgumentCollector(client, args)
Construct(args) ==
    /\ ~ctor.called
    /\ LET r == CtorLoop(args, 1, FALSE, FALSE)
       IN  ctor' = [args |-> args, called |-> TRUE, threw |-> r.threw, error |-> r.error,
                    built |-> r.built]
    /\ UNCHANGED <<handlers, awaiting, throttles, now, cmd, options, registry, parsed, cmdMsg, nEvents, results, invite, guild, validation, stored>>

NextCtor == \E args \in SeqsUpTo(CtorInfos, MaxCtorArgs) : Construct(args)

SpecCtor == InitCtor /\ [][NextCtor]_vars

(***************************************************************************)
(* Specification SpecInhibit: messages for a command without arguments     *)
(* after up to MaxInhibitors calls of addInhibitor.                        *)
(***************************************************************************)
MaxInhibitors == 3
MaxInhibitMessages == 2
InhibitorNames == {"a", "b", "c"}

\* the inhibitors after the addInhibitor calls of regs, in iteration order
RECURSIVE RegisterAll(_)
RegisterAll(regs) ==
    IF regs = <<>> THEN <<>>
    ELSE AddInhibitor(RegisterAll(SubSeq(regs, 1, Len(regs) - 1)), regs[Len(regs)])

\* what the registered inhibitors return for one message, in registration order
InhibitFates ==
    {Fate([k \in DOMAIN RegisterAll(regs) |-> returns[RegisterAll(regs)[k]]], TRUE) :
        regs \in SeqsUpTo(InhibitorNames, MaxInhibitors),
        returns \in [InhibitorNames -> InhibitorResults]}

InitInhibit ==
    /\ InitCommon
    /\ options = NotEditable
    /\ cmd \in {Command(<<>>, Infinity, FALSE, NoThrottling, F) : F \in {{}, {"dmOnly"}}}

InhibitMessage(chan, fate) ==
    /\ nEvents < MaxInhibitMessages
    /\ UserCommand("u1", chan, <<>>, fate)

NextInhibit ==
    \/ \E chan \in Channels, fate \in InhibitFates : InhibitMessage(chan, fate)
    \/ \E h \in Handlers, b \in BodyBehaviours : TypingDone(h, b)
    \/ \E h \in Handlers, r \in BodyResults : BodyDone(h, r)
    \/ \E h \in Handlers : ReplyDone(h)

SpecInhibit == InitInhibit /\ [][NextInhibit]_vars

(***************************************************************************)
(* Slash commands: CommandoInteraction.run and CommandDispatcher           *)
(* .handleSlash, the two handlers of an application command interaction.   *)
(***************************************************************************)
\* the gates of CommandoInteraction.run; the NSFW test does not read command.nsfw
InteractionGateReason(c, chan) ==
    IF InGuild(chan) /\ "cannotSend" \in c.flags THEN "cannotSend"
    ELSE IF InGuild(chan) /\ "cannotUse" \in c.flags THEN "cannotUse"
    ELSE IF InGuild(chan) /\ "dmOnly" \in c.flags THEN "dmOnly"
    ELSE IF "guildOnly" \in c.flags /\ ~InGuild(chan) THEN "guildOnly"
    ELSE IF InGuild(chan) THEN "nsfw"
    ELSE IF "noUserPermission" \in c.flags THEN "userPermissions"
    ELSE IF InGuild(chan) /\ "clientMissing" \in c.flags THEN "clientPermissions"
    ELSE ""

\* the gates of handleSlash; `command.nsfw && !channel.nsfw` also holds in a DM channel
HandleSlashGateReason(c, chan) ==
    IF InGuild(chan) /\ "cannotSend" \in c.flags THEN "cannotSend"
    ELSE IF InGuild(chan) /\ "cannotUse" \in c.flags THEN "cannotUse"
    ELSE IF InGuild(chan) /\ "dmOnly" \in c.flags THEN "dmOnly"
    ELSE IF "guildOnly" \in c.flags /\ ~InGuild(chan) THEN "guildOnly"
    ELSE IF "nsfw" \in c.flags THEN "nsfw"
    ELSE IF "noUserPermission" \in c.flags THEN "userPermissions"
    ELSE IF InGuild(chan) /\ "clientMissing" \in c.flags THEN "clientPermissions"
    ELSE ""

SlashHandlers == {"interaction", "slash"}

\* either handler up to its first suspension; `enabled` is what
\* command.isEnabledIn(guild) would return, which neither handler evaluates
SlashStart(W, h, c, via, author, chan, enabled) ==
    LET reason == IF via = "interaction" THEN InteractionGateReason(c, chan)
                  ELSE HandleSlashGateReason(c, chan)
        W1 == [W EXCEPT !.hs[h] = [IdleHandler EXCEPT !.via = via, !.author = author,
                                                       !.chan = chan, !.enabledIn = enabled]]
    IN  IF reason \in {"cannotSend", "cannotUse"}
            THEN [W1 EXCEPT !.hs[h].pc = "slashReplying", !.hs[h].outcome = reason]
        ELSE IF reason # ""
            THEN [W1 EXCEPT !.hs[h].pc = "slashReplying", !.hs[h].outcome = "blocked",
                            !.hs[h].nBlock = @ + 1, !.hs[h].blockReason = reason]
        ELSE IF c.deprecated THEN [W1 EXCEPT !.hs[h].pc = "slashNotice"]
        ELSE [W1 EXCEPT !.hs[h].pc = "deferring"]

\* interactionCreate for an application command of the registered command
SlashCommand(author, chan, via, enabled) ==
    LET h == CHOOSE x \in Free(handlers) : \A y \in Free(handlers) : x <= y
    IN  /\ nEvents < MaxEvents
        /\ Free(handlers) # {}
        /\ Apply(SlashStart(Cur, h, cmd, via, author, chan, enabled))
        /\ nEvents' = nEvents + 1
        /\ UNCHANGED <<now, cmd, options, registry, parsed, cmdMsg, ctor, invite, guild, validation, stored>>

\* the deprecation notice has been sent to the channel
SlashNoticeSent(h) ==
    /\ handlers[h].pc = "slashNotice"
    /\ handlers' = [handlers EXCEPT ![h].pc = "deferring"]
    /\ UNCHANGED <<awaiting, throttles, now, cmd, options, registry, parsed, cmdMsg, nEvents, ctor, results, invite, guild, validation, stored>>

\* deferReply settled: `command.run({ interaction }, args)` is called, commandRun emitted
SlashDeferred(h, behaviour) ==
    /\ handlers[h].pc = "deferring"
    /\ handlers' = [handlers EXCEPT ![h] =
            IF behaviour = "syncThrow"
            THEN [@ EXCEPT !.bodyCalls = @ + 1, !.nError = @ + 1, !.onErrorCalls = @ + 1,
                           !.pc = "slashReplying", !.outcome = "error"]
            ELSE [@ EXCEPT !.bodyCalls = @ + 1, !.nRun = @ + 1, !.pc = "slashBody"]]
    /\ UNCHANGED <<awaiting, throttles, now, cmd, options, registry, parsed, cmdMsg, nEvents, ctor, results, invite, guild, validation, stored>>

\* the promise of the command body settled; a FriendlyError's message is replied
SlashBodyDone(h, result) ==
    /\ handlers[h].pc = "slashBody"
    /\ handlers' = [handlers EXCEPT ![h] =
            IF result \in {"ok", "invalidType"} THEN Finished(@, "ran")
            ELSE IF result = "friendly"
                THEN [@ EXCEPT !.nError = @ + 1, !.pc = "slashReplying",
                               !.outcome = "friendlyError"]
            ELSE [@ EXCEPT !.nError = @ + 1, !.onErrorCalls = @ + 1,
                           !.pc = "slashReplying", !.outcome = "error"]]
    /\ UNCHANGED <<awaiting, throttles, now, cmd, options, registry, parsed, cmdMsg, nEvents, ctor, results, invite, guild, validation, stored>>

\* a reply, onBlock or onError settled. handleSlash returns the FriendlyError reply;
\* CommandoInteraction.run awaits it and goes on to `await command.onError(...)`
SlashReplyDone(h) ==
    /\ handlers[h].pc = "slashReplying"
    /\ handlers' = [handlers EXCEPT ![h] =
            IF @.via = "interaction" /\ @.outcome = "friendlyError"
            THEN [@ EXCEPT !.onErrorCalls = @ + 1, !.outcome = "friendlyErrorOnError"]
            ELSE Finished(@, @.outcome)]
    /\ UNCHANGED <<awaiting, throttles, now, cmd, options, registry, parsed, cmdMsg, nEvents, ctor, results, invite, guild, validation, stored>>

(***************************************************************************)
(* Specification SpecGates: messages and slash commands for a command      *)
(* without arguments, over the combinations of gate conditions.            *)
(***************************************************************************)
GateFlags == {"dmOnly", "guildOnly", "nsfw", "noUserPermission", "clientMissing"}

GateCommands ==
    {Command(<<>>, Infinity, FALSE, Throttling(1, 1), F) :
        F \in {G \in SUBSET GateFlags : Cardinality(G) <= 2}}
    \cup {Command(<<>>, Infinity, dep, NoThrottling, F) :
            dep \in BOOLEAN, F \in {{"cannotSend"}, {"cannotUse"}, {}}}

InitGates ==
    /\ InitCommon
    /\ options = NotEditable
    /\ cmd \in GateCommands

NextGates ==
    \/ \E chan \in Channels : UserCommand("u1", chan, <<>>, RunFate)
    \/ \E chan \in Channels, via \in SlashHandlers : SlashCommand("u1", chan, via, TRUE)
    \/ \E h \in Handlers : NoticeSent(h)
    \/ \E h \in Handlers, b \in BodyBehaviours : TypingDone(h, b)
    \/ \E h \in Handlers, r \in BodyResults : BodyDone(h, r)
    \/ \E h \in Handlers : ReplyDone(h)
    \/ \E h \in Handlers : SlashNoticeSent(h)
    \/ \E h \in Handlers, b \in BodyBehaviours : SlashDeferred(h, b)
    \/ \E h \in Handlers, r \in BodyResults : SlashBodyDone(h, r)
    \/ \E h \in Handlers : SlashReplyDone(h)
    \/ Tick

SpecGates == InitGates /\ [][NextGates]_vars

(***************************************************************************)
(* Specification SpecRegistry: groups, commands and types are registered   *)
(* and searched for.                                                       *)
(***************************************************************************)
MaxRegistryCalls == 4

RegistryGroup(id, name) == [id |-> id, name |-> name]
RegistryCommand(name, aliases) ==
    [name |-> name, aliases |-> aliases, groupId |-> N_fin, memberName |-> name,
     unknown |-> FALSE]

GroupInputs ==
    {RegistryGroup(N_fin, N_Fin), RegistryGroup(N_fin, N_Line),
     RegistryGroup(N_final, N_Finals), RegistryGroup(N_in, N_FIN)}

\* command names, aliases and group ids are lower-case (their constructors require it)
CommandInputs ==
    {RegistryCommand(N_fin, <<>>), RegistryCommand(N_final, <<N_in>>),
     RegistryCommand(N_line, <<N_fin>>)}

TypeInputs == {"integer", "string"}
SearchInputs == {N_fin, N_Fin, N_FIN, N_in, N_final, <<>>}

InitRegistry ==
    /\ InitCommon
    /\ options = NotEditable
    /\ cmd = Command(<<>>, Infinity, FALSE, NoThrottling, {})

RegistryCall(reg) ==
    /\ registry.calls < MaxRegistryCalls
    /\ registry' = [reg EXCEPT !.calls = registry.calls + 1]
    /\ UNCHANGED <<handlers, awaiting, throttles, now, cmd, nEvents, ctor, results, options, parsed, cmdMsg, invite, guild, validation, stored>>

RegistryReset(reg) ==
    [reg EXCEPT !.search = <<>>, !.exact = FALSE, !.found = <<>>]

RegisterGroup(g) == RegistryCall(RegistryReset(RegisterGroupIn(registry, g)))
RegisterCommand(c) == RegistryCall(RegistryReset(RegisterCommandIn(registry, c)))
RegisterType(id) == RegistryCall(RegistryReset(RegisterTypeIn(registry, id)))

CallFindCommands(search, exact) ==
    RegistryCall([registry EXCEPT !.op = "findCommands", !.threw = FALSE,
                                  !.search = search, !.exact = exact,
                                  !.found = FindCommands(registry.commands, search, exact)])

CallFindGroups(search, exact) ==
    RegistryCall([registry EXCEPT !.op = "findGroups", !.threw = FALSE,
                                  !.search = search, !.exact = exact,
                                  !.found = FindGroups(registry.groups, search, exact)])

NextRegistry ==
    \/ \E g \in GroupInputs : RegisterGroup(g)
    \/ \E c \in CommandInputs : RegisterCommand(c)
    \/ \E id \in TypeInputs : RegisterType(id)
    \/ \E search \in SearchInputs, exact \in BOOLEAN : CallFindCommands(search, exact)
    \/ \E search \in SearchInputs, exact \in BOOLEAN : CallFindGroups(search, exact)

SpecRegistry == InitRegistry /\ [][NextRegistry]_vars

(***************************************************************************)
(* Specification SpecReregister: commands of one group are registered,     *)
(* reregistered and unregistered.                                          *)
(***************************************************************************)
ReregisterInputs ==
    {RegistryCommand(N_fin, <<>>), RegistryCommand(N_final, <<N_in>>),
     RegistryCommand(N_final, <<N_fin>>), RegistryCommand(N_line, <<>>),
     RegistryCommand(N_line, <<N_in>>)}

ReregisterCommand(c, k) ==
    /\ k \in DOMAIN registry.commands
    /\ RegistryCall(RegistryReset(ReregisterCommandIn(registry, c, k)))

UnregisterCommand(k) ==
    /\ k \in DOMAIN registry.commands
    /\ RegistryCall(RegistryReset(UnregisterCommandIn(registry, k)))

NextReregister ==
    \/ RegisterGroup(RegistryGroup(N_fin, N_Fin))
    \/ \E c \in ReregisterInputs : RegisterCommand(c)
    \/ \E c \in ReregisterInputs, k \in 1..3 : ReregisterCommand(c, k)
    \/ \E k \in 1..3 : UnregisterCommand(k)

SpecReregister == InitRegistry /\ [][NextReregister]_vars

(***************************************************************************)
(* Specification SpecParse: CommandoMessage.parseArgs applied to argument  *)
(* strings of up to MaxArgLen characters.                                  *)
(***************************************************************************)
MaxArgLen == 4

ArgChars == {"a", " ", DQ, SQ, SmartDQ}

\* the argument text `"hello world" now`
S_helloWorldNow ==
    <<DQ, "h", "e", "l", "l", "o", " ", "w", "o", "r", "l", "d", DQ, " ", "n", "o", "w">>

ArgCounts == {0, 1, 2, 3, Infinity}

InitParse ==
    /\ InitDispatcher
    /\ cmdMsg = NewCmdMsg
    /\ options = NotEditable
    /\ cmd = Command(<<>>, Infinity, FALSE, NoThrottling, {})
    /\ \E str \in SeqsUpTo(ArgChars, MaxArgLen) \cup {S_helloWorldNow},
          n \in ArgCounts, q \in BOOLEAN :
            parsed = [NotParsed EXCEPT !.argString = str, !.argCount = n,
                                       !.allowSingleQuote = q]

CallParseArgs ==
    /\ ~parsed.called
    /\ parsed' = [parsed EXCEPT !.called = TRUE,
                                !.result = ParseArgs(parsed.argString, parsed.argCount,
                                                     parsed.allowSingleQuote)]
    /\ UNCHANGED <<handlers, awaiting, throttles, now, cmd, nEvents, ctor, results, options,
                   registry, cmdMsg, invite, guild, validation, stored>>

NextParse == CallParseArgs

SpecParse == InitParse /\ [][NextParse]_vars

(***************************************************************************)
(* Specification SpecArgument: an argument with or without a type and with *)
(* or without custom functions is constructed, then obtained.              *)
(***************************************************************************)
WithFunctions(info, type, validate, parse) ==
    [info EXCEPT !.type = type, !.validate = validate, !.parse = parse]

ArgumentInfos ==
    {WithFunctions(ArgInfo("n", "absent", "absent", inf), type, validate, parse) :
        inf \in BOOLEAN, type \in {"integer", "none"}, validate \in BOOLEAN,
        parse \in BOOLEAN}

InitArgument ==
    /\ InitCommon
    /\ options = Editable
    /\ cmd \in {Command(<<>>, L, FALSE, NoThrottling, {}) : L \in {1, Infinity}}

\* new ArgumentCollector(client, [info]): the Argument constructor calls validateInfo
ConstructArgument(info) ==
    /\ ~ctor.called
    /\ LET err == ValidateInfo(info)
       IN  /\ ctor' = [args |-> <<info>>, called |-> TRUE, threw |-> err # "", error |-> err,
                       built |-> IF err # "" THEN <<>> ELSE <<info>>]
           /\ cmd' = [cmd EXCEPT !.args = IF err # "" THEN <<>> ELSE <<info>>]
    /\ UNCHANGED <<handlers, awaiting, throttles, now, options, registry, parsed, cmdMsg, nEvents,
                   results, invite, guild, validation, stored>>

\* collector.obtain on the collector that was built
ObtainBuilt(provided) ==
    /\ ctor.called /\ ~ctor.threw
    /\ CallObtain("c1", provided)

NextArgument ==
    \/ \E info \in ArgumentInfos : ConstructArgument(info)
    \/ \E provided \in ProvidedLists : ObtainBuilt(provided)
    \/ PromptSent(1)
    \/ PromptFails(1)
    \/ Timeout(1)
    \/ \E text \in PromptReplyTexts : UserReply("u1", "c1", text)

SpecArgument == InitArgument /\ [][NextArgument]_vars

(***************************************************************************)
(* Specification SpecEdit: one message is created and then edited; each    *)
(* version is plain text or a valid, enabled, uninhibited command whose    *)
(* run responds in the channel or by direct message.                       *)
(***************************************************************************)
MaxResponses == 2
MaxHandled == 3

Contents == {"text", "command"}

InitEdit ==
    /\ InitDispatcher
    /\ parsed = NotParsed
    /\ cmdMsg = NewCmdMsg
    /\ options \in {[commandEditableDuration |-> CommandEditableDuration,
                      nonCommandEditable |-> b] : b \in BOOLEAN}
    /\ cmd = Command(<<>>, Infinity, FALSE, NoThrottling, {})

EditFrame == UNCHANGED <<handlers, awaiting, throttles, now, cmd, nEvents, ctor, options,
                         registry, parsed, invite, guild, validation, stored>>

\* the run is skipped: finalize(null) and cacheCommandoMessage with no responses
NotRun(m, content, isUpdate) ==
    [m EXCEPT !.phase = "idle", !.content = content, !.handled = @ + 1,
              !.update = isUpdate, !.previous = m.content, !.ran = FALSE,
              !.returned = "none", !.produced = <<>>, !.prior = m.responses]

\* `responses = await cmdMsg.run()` is reached
StartRun(m, content, isUpdate) ==
    [m EXCEPT !.phase = "running", !.content = content, !.handled = @ + 1,
              !.update = isUpdate, !.previous = m.content, !.ran = TRUE,
              !.returned = "none", !.produced = <<>>, !.prior = m.responses]

\* messageCreate: handleMessage(message)
MessageCreate(content) ==
    /\ cmdMsg.phase = "idle" /\ cmdMsg.handled = 0
    /\ IF content = "command"
       THEN /\ cmdMsg' = StartRun(FreshResponses(cmdMsg), content, FALSE)
            /\ results' = results
       ELSE /\ cmdMsg' = NotRun(cmdMsg, content, FALSE)
            /\ results' = CacheCommandoMessage(results, FALSE, FALSE, "null", options)
    /\ EditFrame

\* messageUpdate with changed content: handleMessage(message, oldMessage)
MessageUpdate(content) ==
    LET oldCmdMsg == 1 \in results
    IN  /\ cmdMsg.phase = "idle" /\ cmdMsg.handled >= 1 /\ cmdMsg.handled < MaxHandled
        /\ IF ~oldCmdMsg /\ ~options.nonCommandEditable
           THEN /\ cmdMsg' = NotRun(cmdMsg, content, TRUE)
                /\ results' = results
           ELSE IF content = "command" /\ oldCmdMsg
           THEN /\ cmdMsg' = StartRun(cmdMsg, content, TRUE)
                /\ results' = results
           ELSE IF content = "command"
           THEN /\ cmdMsg' = NotRun(FreshResponses(cmdMsg), content, TRUE)
                /\ results' = CacheCommandoMessage(results, TRUE, TRUE, "null", options)
           ELSE /\ cmdMsg' = NotRun(cmdMsg, content, TRUE)
                /\ results' = CacheCommandoMessage(
                                  IF options.nonCommandEditable THEN results ELSE results \ {1},
                                  TRUE, FALSE, "null", options)
        /\ EditFrame

\* the command body responds in the channel or by direct message
Respond(id) ==
    /\ cmdMsg.phase = "running"
    /\ Len(cmdMsg.produced) < MaxResponses
    /\ cmdMsg' = EditCurrentResponse(cmdMsg, id)
    /\ UNCHANGED results
    /\ EditFrame

\* run() resolves with the responses made, null when there are none; finalize, then
\* cacheCommandoMessage, which arms the expiry timer for a new message
RunReturns ==
    LET returned == IF cmdMsg.produced = <<>> THEN "null" ELSE "responses"
        cached == CacheCommandoMessage(results, cmdMsg.update, TRUE, returned, options)
    IN  /\ cmdMsg.phase = "running"
        /\ cmdMsg' = [Finalize(cmdMsg, returned) EXCEPT
                          !.phase = "idle", !.returned = returned,
                          !.timer = @ \/ (returned # "null" /\ ~cmdMsg.update)]
        /\ results' = cached
        /\ EditFrame

\* the timer of cacheCommandoMessage fires
CacheExpire ==
    /\ cmdMsg.timer
    /\ cmdMsg' = [cmdMsg EXCEPT !.timer = FALSE]
    /\ results' = results \ {1}
    /\ EditFrame

NextEdit ==
    \/ \E content \in Contents : MessageCreate(content)
    \/ \E content \in Contents : MessageUpdate(content)
    \/ \E id \in ResponseChannels : Respond(id)
    \/ RunReturns
    \/ CacheExpire

SpecEdit == InitEdit /\ [][NextEdit]_vars

\* the same, with every armed timer firing and every run returning
SpecEditLive ==
    InitEdit /\ [][NextEdit]_vars /\ WF_vars(CacheExpire) /\ WF_vars(RunReturns)

(***************************************************************************)
(* Specification SpecThrottle: the dispatcher of Spec for a throttled      *)
(* command that suspends between the throttle test and `usages++`, on the  *)
(* deprecation notice or on an argument prompt.                            *)
(***************************************************************************)
ThrottleCommands ==
    {Command(<<>>, Infinity, TRUE, Throttling(1, 1), {}),
     Command(<<RequiredInt>>, 1, FALSE, Throttling(1, 1), {}),
     Command(<<>>, Infinity, FALSE, Throttling(1, 1), {"dmOnly"})}

InitThrottle ==
    /\ InitCommon
    /\ options = NotEditable
    /\ cmd \in ThrottleCommands

NextThrottle ==
    \/ \E chan \in Channels : UserCommand("u1", chan, <<>>, RunFate)
    \/ \E chan \in Channels, text \in {S_3, S_cancel} : UserReply("u1", chan, text)
    \/ \E h \in Handlers : NoticeSent(h)
    \/ \E h \in Handlers : PromptSent(h)
    \/ \E h \in Handlers : PromptFails(h)
    \/ \E h \in Handlers : Timeout(h)
    \/ \E h \in Handlers : TypingDone(h, "async")
    \/ \E h \in Handlers, r \in {"ok", "error"} : BodyDone(h, r)
    \/ \E h \in Handlers : ReplyDone(h)
    \/ Tick

SpecThrottle == InitThrottle /\ [][NextThrottle]_vars

(***************************************************************************)
(* Specification SpecInvite: two obtain cycles of arguments of type        *)
(* invite, suspended and resumed at their awaits in any order.             *)
(***************************************************************************)
InviteValues == {"a", "b", "bad"}

InitInvite ==
    /\ InitCommon
    /\ options = NotEditable
    /\ cmd = Command(<<>>, Infinity, FALSE, NoThrottling, {})

InviteFrame == UNCHANGED <<handlers, awaiting, throttles, now, cmd, nEvents, ctor, results,
                           options, registry, parsed, cmdMsg, guild, validation, stored>>

\* obtain calls validate for a provided or a replied value
InviteValidateCall(k, value) ==
    /\ invite.cycles[k].pc \in {"idle", "parsed"}
    /\ invite' = InviteValidate(invite, k, value)
    /\ InviteFrame

InviteFetchDone(k) ==
    /\ invite.cycles[k].pc = "fetching"
    /\ invite' = InviteFetched(invite, k)
    /\ InviteFrame

\* obtain resumed after `await this.validate(...)` and calls parse
InviteParseCall(k) ==
    /\ invite.cycles[k].pc = "validated"
    /\ invite' = InviteParse(invite, k)
    /\ InviteFrame

InviteRefetchDone(k) ==
    /\ invite.cycles[k].pc = "refetching"
    /\ invite' = InviteRefetched(invite, k)
    /\ InviteFrame

NextInvite ==
    \/ \E k \in 1..2, value \in InviteValues : InviteValidateCall(k, value)
    \/ \E k \in 1..2 : InviteFetchDone(k)
    \/ \E k \in 1..2 : InviteParseCall(k)
    \/ \E k \in 1..2 : InviteRefetchDone(k)

SpecInvite == InitInvite /\ [][NextInvite]_vars

(***************************************************************************)
(* Specification SpecEnabled: messages and interactions for one command    *)
(* without restrictions, which is enabled or disabled in the guild.        *)
(***************************************************************************)
InitEnabled ==
    /\ InitCommon
    /\ options = NotEditable
    /\ cmd = Command(<<>>, Infinity, FALSE, NoThrottling, {})

NextEnabled ==
    \/ \E chan \in Channels, fate \in {RunFate, DisabledFate} :
          UserCommand("u1", chan, <<>>, fate)
    \/ \E chan \in Channels, via \in SlashHandlers, enabled \in BOOLEAN :
          SlashCommand("u1", chan, via, enabled)
    \/ \E h \in Handlers : TypingDone(h, "async")
    \/ \E h \in Handlers, r \in {"ok", "error"} : BodyDone(h, r)
    \/ \E h \in Handlers : ReplyDone(h)
    \/ \E h \in Handlers : SlashDeferred(h, "async")
    \/ \E h \in Handlers, r \in {"ok", "error"} : SlashBodyDone(h, r)
    \/ \E h \in Handlers : SlashReplyDone(h)

SpecEnabled == InitEnabled /\ [][NextEnabled]_vars

(***************************************************************************)
(* Specification SpecValidate: Argument.validate for an argument with a    *)
(* custom validator that returns its result directly or through a promise. *)
(***************************************************************************)
ValidatorResults == {VTrue, VFalse, VStr(""), VStr("reason"), VStr("first\nlast")}
ErrorOverrides == {"", "override"}

\* this.validate(value, ...) with validator result `valid` and this.error = error
CallValidate(how, valid, error) ==
    /\ validation' = [validation EXCEPT ![how] =
            [called |-> TRUE, valid |-> valid, error |-> error,
             outcome |-> ValidateResult(valid, how = "promise", error)]]
    /\ UNCHANGED <<handlers, awaiting, throttles, now, cmd, nEvents, ctor, results, options,
                   registry, parsed, cmdMsg, invite, guild, stored>>

NextValidate ==
    \E how \in {"direct", "promise"}, valid \in ValidatorResults, error \in ErrorOverrides :
        CallValidate(how, valid, error)

SpecValidate == InitEnabled /\ [][NextValidate]_vars

(***************************************************************************)
(* Specification SpecKeys: the keys under which finalize stores the        *)
(* responses of a run, sent in guild channels and in the direct messages.  *)
(***************************************************************************)
ResponseTargets ==
    {[id |-> "c1", dm |-> FALSE], [id |-> "c2", dm |-> FALSE], [id |-> "d1", dm |-> TRUE]}

InitKeys ==
    /\ InitClient
    /\ parsed = NotParsed
    /\ cmdMsg = NewCmdMsg
    /\ options = NotEditable
    /\ cmd = Command(<<>>, Infinity, FALSE, NoThrottling, {})
    /\ guild = NewGuild
    /\ stored \in {NewStored(build) : build \in {"lib", "src"}}

KeysFrame == UNCHANGED <<handlers, awaiting, throttles, now, cmd, nEvents, ctor, results,
                         options, registry, parsed, cmdMsg, invite, guild, validation>>

\* the run sends a response in a channel
SendResponse(channel) ==
    /\ stored.phase = "running"
    /\ Len(stored.sent) < MaxResponses
    /\ stored' = [stored EXCEPT !.sent = Append(@, channel)]
    /\ KeysFrame

\* the run returns its responses and the dispatcher finalizes the message
FinalizeResponses ==
    /\ stored.phase = "running"
    /\ stored' = FinalizeKeys(stored)
    /\ KeysFrame

\* the message is edited and run again
RunAgain ==
    /\ stored.phase = "done"
    /\ stored' = [stored EXCEPT !.phase = "running", !.sent = <<>>]
    /\ KeysFrame

NextKeys ==
    \/ \E channel \in ResponseTargets : SendResponse(channel)
    \/ FinalizeResponses
    \/ RunAgain

SpecKeys == InitKeys /\ [][NextKeys]_vars

(***************************************************************************)
(* Specification SpecGuild: the command and group statuses of one guild,   *)
(* set and read through CommandoGuild's methods.                           *)
(***************************************************************************)
InitGuild ==
    /\ InitClient
    /\ parsed = NotParsed
    /\ cmdMsg = NewCmdMsg
    /\ options = NotEditable
    /\ cmd = Command(<<>>, Infinity, FALSE, NoThrottling, {})
    /\ stored = NewStored("lib")
    /\ guild \in {[NewGuild EXCEPT !.globalEnabled = b] : b \in BOOLEAN}

GuildFrame == UNCHANGED <<handlers, awaiting, throttles, now, cmd, nEvents, ctor, results,
                          options, registry, parsed, cmdMsg, invite, validation, stored>>

SetCommandEnabledCall(command, enabled) ==
    /\ guild' = SetCommandEnabled(guild, command, enabled)
    /\ GuildFrame

SetGroupEnabledCall(group, enabled) ==
    /\ guild' = SetGroupEnabled(guild, group, enabled)
    /\ GuildFrame

IsCommandEnabledCall(command) ==
    /\ guild' = [guild EXCEPT !.call = [op |-> "isCommandEnabled", target |-> command.name,
                     enabled |-> TRUE, result |-> Status(IsCommandEnabled(guild, command))]]
    /\ GuildFrame

IsGroupEnabledCall(group) ==
    /\ guild' = [guild EXCEPT !.call = [op |-> "isGroupEnabled", target |-> group.id,
                     enabled |-> TRUE, result |-> Status(IsGroupEnabled(guild, group))]]
    /\ GuildFrame

NextGuild ==
    \/ \E command \in GuildCommands, enabled \in BOOLEAN : SetCommandEnabledCall(command, enabled)
    \/ \E group \in GuildGroups, enabled \in BOOLEAN : SetGroupEnabledCall(group, enabled)
    \/ \E command \in GuildCommands : IsCommandEnabledCall(command)
    \/ \E group \in GuildGroups : IsGroupEnabledCall(group)

SpecGuild == InitGuild /\ [][NextGuild]_vars


(***************************************************************************)
(* Properties.                                                             *)
(***************************************************************************)
Sum4(s) == s.nBlock + s.nCancel + s.nRun + s.nError

\* C1: for every (user, channel) pair at most one ArgumentCollector.obtain call is
\* between its registration and its return at any time.
C1_OneCollectorPerChannel ==
    \A u \in Users, c \in Channels :
        Cardinality({h \in Handlers : handlers[h].registered /\ handlers[h].author = u
                                       /\ handlers[h].chan = c}) <= 1

\* C2 as stated: a handled command message never has two of the notifications
\* commandBlock, commandCancel, commandRun, commandError, and has exactly one once
\* its handling is over.
C2_ExactlyOneNotification ==
    \A h \in Handlers :
        handlers[h].via = "run" =>
            /\ Sum4(handlers[h]) <= 1
            /\ handlers[h].pc = "done" => Sum4(handlers[h]) = 1

\* C2 amended: at most one of commandBlock, commandCancel and commandRun is emitted
\* and commandError at most once, only for a failed command body and never with
\* commandBlock or commandCancel; handling ends with none of the first three only
\* when the command is disabled, the bot cannot send in the channel, the usage is
\* malformed, prompting threw, or the body threw before commandRun was emitted.
C2_Notifications ==
    \A h \in Handlers :
        LET s == handlers[h]
        IN  s.via = "run" =>
                /\ s.nBlock + s.nCancel + s.nRun <= 1
                /\ s.nError <= 1
                /\ s.nError = 1 => s.nBlock = 0 /\ s.nCancel = 0 /\ s.bodyCalls = 1
                /\ s.outcome \in {"disabled", "cannotSend", "formatError", "threw"}
                        => Sum4(s) = 0
                /\ s.pc = "done" =>
                        \/ s.nBlock + s.nCancel + s.nRun = 1
                        \/ s.outcome \in {"disabled", "cannotSend", "formatError", "threw"}
                        \/ s.outcome = "error" /\ s.nError = 1

C2_Witness ==
    \E h \in Handlers :
        handlers[h].pc = "done" /\ handlers[h].nRun = 1 /\ handlers[h].nError = 1

\* C3: once the collector returned a cancelled result the command body is never
\* invoked for that message.
C3_CancelledNeverRuns ==
    \A h \in Handlers :
        LET s == handlers[h]
        IN  s.collResult.has /\ s.collResult.cancelled # "null"
                => s.bodyCalls = 0 /\ s.nRun = 0 /\ s.pc \notin {"typing", "body"}

C3_Witness ==
    \E h \in Handlers :
        /\ handlers[h].pc = "done"
        /\ handlers[h].collResult.cancelled = "time"
        /\ handlers[h].bodyCalls = 0

\* C4: in every step in which a collector's obtain finishes (success, cancellation
\* or exception) the key it registered is absent from the awaiting set afterwards.
C4_KeyReleased ==
    [][\A h \in Handlers :
         handlers[h].registered /\ ~handlers'[h].registered
            => AwaitKey(handlers[h]) \notin awaiting']_vars

C4_Witness ==
    \E h \in Handlers :
        /\ handlers[h].outcome = "threw"
        /\ ~handlers[h].registered
        /\ AwaitKey(handlers[h]) \notin awaiting

\* C5: a result of Argument.obtain for a required argument without default has a
\* value or a cancellation cause, never both and never neither.
C5_ValueXorCancelled ==
    \A h \in Handlers :
        \A k \in DOMAIN handlers[h].argResults :
            LET info == cmd.args[k]
                r == handlers[h].argResults[k]
            IN  ArgRequired(info) /\ info.default = "absent"
                    => ((r.value.t # "null") # (r.cancelled # "null"))

C5_Witness ==
    \E h \in Handlers :
        /\ Len(handlers[h].argResults) = 1
        /\ ArgRequired(cmd.args[1]) /\ cmd.args[1].default = "absent" /\ cmd.args[1].infinite
        /\ handlers[h].argResults[1].value.t = "array"
        /\ Len(handlers[h].argResults[1].answers) = 2

\* C6 as stated: constructing a collector with an argument declared without a
\* default after an argument declared with one throws.
C6_RequiredAfterOptionalThrows ==
    ctor.called =>
        ((\E i, j \in DOMAIN ctor.args :
             i < j /\ ctor.args[i].default # "absent" /\ ctor.args[j].default = "absent")
            => ctor.threw)

\* C7: constructing a collector with any argument after an infinite one throws, so
\* in a constructed collector only the last argument can be infinite.
C7_AfterInfiniteThrows ==
    ctor.called =>
        /\ (\E i \in DOMAIN ctor.args : i < Len(ctor.args) /\ ctor.args[i].infinite)
                => ctor.threw
        /\ ~ctor.threw =>
                /\ ctor.built = ctor.args
                /\ \A i \in DOMAIN ctor.built : ctor.built[i].infinite => i = Len(ctor.built)

C7_Witness ==
    /\ ctor.called /\ ctor.threw
    /\ Len(ctor.args) = 2
    /\ ctor.args[1].infinite
    /\ ctor.error = "No other argument may come after an infinite argument."

\* C8: a throttle that exists started less than `duration` seconds ago; an
\* invocation that passes the other gates while the user's throttle counts `usages`
\* uses is blocked for throttling with 0 < remaining <= duration; one made when
\* the window has ended is not blocked and starts a new window at the current time.
C8_Inv ==
    /\ \A u \in Users :
          throttles[u].has => now < throttles[u].start + cmd.throttling.duration * 1000
    /\ \A h \in Handlers :
          handlers[h].blockReason = "throttling"
             => /\ handlers[h].remaining > 0
                /\ handlers[h].remaining <= cmd.throttling.duration * 1000

C8_Step ==
    \A h \in Handlers :
        LET s == handlers[h]
            s2 == handlers'[h]
            t == throttles[s2.author]
            t2 == throttles'[s2.author]
        IN  (/\ cmd.throttling.on
             /\ s.pc \in {"idle", "done"} /\ s2.pc \notin {"idle", "done"}
             /\ s2.outcome \notin {"inhibited", "disabled"}
             /\ GateReason(cmd, s2.chan) = "")
            => /\ (t.has /\ t.usages >= cmd.throttling.usages)
                    => s2.blockReason = "throttling" /\ t2 = t
               /\ ~t.has
                    => /\ s2.blockReason # "throttling"
                       /\ t2.has /\ t2.start = now /\ t2.gen = t.gen + 1

C8_Throttle == []C8_Inv /\ [][C8_Step]_vars

C8_Witness ==
    /\ throttles["u1"].gen = 2
    /\ \E h \in Handlers : handlers[h].blockReason = "throttling" /\ handlers[h].remaining > 0

\* C9: every call of parse in obtain and obtainInfinite is on the raw value of the
\* most recent validate call, and that call returned true.
C9_ParseAfterValidate ==
    \A h \in Handlers :
        \A e \in handlers[h].parseLog :
            e.validated.has /\ e.validated.ok /\ e.validated.raw = e.raw

C9_Witness ==
    \E h \in Handlers :
        /\ handlers[h].pc = "returned"
        /\ handlers[h].parseLog # {}
        /\ Len(handlers[h].argResults) = 1
        /\ Len(handlers[h].argResults[1].answers) >= 2

\* C10: never more than L prompts are sent for one value (one slot of an infinite
\* argument), another prompt is only prepared when fewer than L were sent, and an
\* invalid reply to the L-th prompt ends obtain with value null, cancelled promptLimit.
StillInvalid(text, info) ==
    /\ ArgValidate(text, info) # VTrue
    /\ ToLowerCase(text) # S_cancel
    /\ info.infinite => ToLowerCase(text) # S_finish

C10_Inv ==
    \A h \in Handlers :
        handlers[h].via # "none" =>
            /\ handlers[h].slotPrompts <= handlers[h].L
            /\ handlers[h].pc = "prompt" => handlers[h].slotPrompts < handlers[h].L

C10_Step ==
    \A h \in Handlers :
        LET s == handlers[h]
            s2 == handlers'[h]
        IN  \A text \in ReplyTexts :
                (/\ s.pc = "await" /\ s.slotPrompts = s.L
                 /\ s2.answers = Append(s.answers, text)
                 /\ StillInvalid(text, cmd.args[s.i]))
                => /\ s2.pc = "returned"
                   /\ s2.res.value.t = "null"
                   /\ s2.res.cancelled = "promptLimit"

C10_PromptLimit == []C10_Inv /\ [][C10_Step]_vars

C10_Witness ==
    \E h \in Handlers :
        /\ handlers[h].pc = "returned"
        /\ handlers[h].L >= 2
        /\ Len(handlers[h].argResults) = 1
        /\ handlers[h].argResults[1].cancelled = "promptLimit"
        /\ Len(handlers[h].argResults[1].prompts) = handlers[h].L

\* C11 as stated: a wait for a reply always ends, and when it ends without a reply
\* having been consumed obtain has returned value null and cancelled time.
C11_Waiting == handlers[1].pc = "await"

C11_TimedOut(s) ==
    /\ s.pc = "returned"
    /\ s.res.value.t = "null"
    /\ s.res.cancelled = "time"

C11_Step ==
    (C11_Waiting /\ handlers'[1].answers = handlers[1].answers /\ handlers'[1] # handlers[1])
        => /\ C11_TimedOut(handlers'[1])
           /\ handlers'[1].res.answers = handlers[1].answers
           /\ handlers'[1].res.prompts = handlers[1].prompts

C11_EveryWaitTimesOut == (C11_Waiting ~> ~C11_Waiting) /\ [][C11_Step]_vars

\* C11 amended: the same for an argument whose wait is a positive finite number of
\* seconds; with wait 0 or Infinity no timer is armed and the wait has no bound.
C11_FiniteWait == cmd.args[1].wait > 0 /\ cmd.args[1].wait # Infinity

C11_FiniteWaitTimesOut ==
    ((C11_Waiting /\ C11_FiniteWait) ~> ~C11_Waiting) /\ [][C11_Step]_vars

C11_Witness ==
    /\ C11_TimedOut(handlers[1])
    /\ cmd.args[1].wait = DefaultWait
    /\ Len(handlers[1].res.answers) = 1
    /\ Len(handlers[1].res.prompts) = 2

\* C12 as stated: for an argument declared with a default, obtain on an empty raw
\* value returns the resolved default (7 for the literal 7, 0 for the literal 0, null
\* for null, 8 for the function that returns 8) with cancelled null, no prompt and
\* no answer, and never prompts or waits.
C12_ExpectedDefault(info) ==
    CASE info.default = "literal" -> JNum(7)
      [] info.default = "zero" -> JNum(0)
      [] info.default = "function" -> JNum(8)
      [] OTHER -> JNull

C12_DefaultReturned(s) ==
    /\ s.pc = "returned"
    /\ s.argResults = <<[value |-> C12_ExpectedDefault(cmd.args[1]), cancelled |-> "null",
                          prompts |-> <<>>, answers |-> <<>>]>>

C13_FirstReplyValid(s) ==
    /\ s.collResult.has
    /\ Len(s.collResult.answers) >= 1
    /\ IntegerValidate(s.collResult.answers[1], cmd.args[1]) = VTrue

C13_Body(s) ==
    /\ s.collResult.has /\ s.collResult.cancelled = "null"
    /\ Len(s.collResult.prompts) = 1
    /\ Len(s.collResult.answers) = 1
    /\ s.bodyArgs = <<[key |-> cmd.args[1].key,
                        value |-> JNum(ParseInt(s.collResult.answers[1]).n)]>>
    /\ s.bodyCalls = (IF s.pc = "typing" THEN 0 ELSE 1)

C13_Prompting(s) ==
    /\ s.pc = "prompt" /\ s.prompts = <<>> => s.answers = <<>>
    /\ s.pc = "await" /\ s.answers = <<>> => Len(s.prompts) = 1
    /\ C13_FirstReplyValid(s) => C13_Body(s)

C13_OnePromptThenRun ==
    \A h \in Handlers :
        LET s == handlers[h]
        IN  s.via = "run" =>
                /\ C13_Prompting(s)
                /\ s.collResult.has /\ s.collResult.answers = <<>>
                        => Len(s.collResult.prompts) = 1

\* C13 amended: the same when the command's prompt limit is at least 1; with a
\* prompt limit of 0 no prompt is sent and the usage is reported as malformed.
C13_OnePromptThenRunLimited ==
    \A h \in Handlers :
        LET s == handlers[h]
        IN  s.via = "run" =>
                /\ C13_Prompting(s)
                /\ s.collResult.has /\ s.collResult.answers = <<>> /\ cmd.promptLimit >= 1
                        => Len(s.collResult.prompts) = 1

C13_Witness ==
    \E h \in Handlers :
        /\ handlers[h].pc = "done" /\ handlers[h].outcome = "ran"
        /\ cmd.promptLimit = Infinity
        /\ handlers[h].collResult.answers = <<S_3>>
        /\ handlers[h].bodyArgs = <<[key |-> "n", value |-> JNum(3)]>>
        /\ handlers[h].bodyCalls = 1

\* C14: a reply `cancel` or `Cancel`, on the single and on the infinite path and
\* whatever was collected before, ends obtain in the step that consumes it with
\* value null and cancelled user; validate and parse are never called on it.
C14_CancelWords == {S_cancel, S_Cancel}

C14_NeverChecked ==
    \A h \in Handlers :
        /\ handlers[h].lastValidate.has => handlers[h].lastValidate.raw \notin C14_CancelWords
        /\ \A e \in handlers[h].parseLog : e.raw \notin C14_CancelWords

C14_Step ==
    \A h \in Handlers :
        LET s == handlers[h]
            s2 == handlers'[h]
        IN  \A text \in C14_CancelWords :
                (s.pc = "await" /\ s2.answers = Append(s.answers, text))
                => /\ s2.pc = "returned"
                   /\ s2.res.value.t = "null"
                   /\ s2.res.cancelled = "user"
                   /\ s2.res.answers = s2.answers
                   /\ s2.lastValidate = s.lastValidate
                   /\ s2.parseLog = s.parseLog

C14_CancelEnds == []C14_NeverChecked /\ [][C14_Step]_vars

C14_Witness ==
    \E h \in Handlers :
        /\ handlers[h].pc = "returned"
        /\ cmd.args[1].infinite
        /\ Len(handlers[h].results) = 2
        /\ Len(handlers[h].answers) = 3
        /\ handlers[h].answers[3] = S_Cancel
        /\ handlers[h].res.cancelled = "user"

\* C15: when obtainInfinite was given no values and the replies were k >= 1 valid
\* values followed by `finish`, the result is the list of the k parsed values in
\* reply order with cancelled null.
C15_ValidReply(text, info) ==
    /\ text \notin {S_cancel, S_Cancel, S_finish}
    /\ IntegerValidate(text, info) = VTrue

C15_FinishAfterValid(s, info) ==
    /\ s.pc = "returned"
    /\ info.infinite
    /\ s.provided = <<>>
    /\ Len(s.res.answers) >= 2
    /\ s.res.answers[Len(s.res.answers)] = S_finish
    /\ \A k \in 1..(Len(s.res.answers) - 1) : C15_ValidReply(s.res.answers[k], info)

C15_FinishReturnsList ==
    \A h \in Handlers :
        LET s == handlers[h]
            info == cmd.args[1]
        IN  C15_FinishAfterValid(s, info)
                => /\ s.res.cancelled = "null"
                   /\ s.res.value =
                        JArr([k \in 1..(Len(s.res.answers) - 1) |-> ParseInt(s.res.answers[k]).n])

C15_Witness ==
    \E h \in Handlers :
        /\ C15_FinishAfterValid(handlers[h], cmd.args[1])
        /\ Len(handlers[h].res.answers) = 3
        /\ handlers[h].res.value = JArr(<<4, 3>>)
        /\ Len(handlers[h].res.prompts) = 1

\* C16 as stated: when an infinite collection ends with the reply `finish` and no
\* value collected, the result is cancelled exactly when the argument has no
\* default (the key is missing or null); with any default, 0 included, cancelled
\* is null.
C16_ZeroFinish(s, info) ==
    /\ s.pc = "returned"
    /\ info.infinite
    /\ Len(s.res.answers) >= 1
    /\ s.res.answers[Len(s.res.answers)] = S_finish
    /\ s.results = <<>>

C16_ZeroFinishCancelledIffNoDefault ==
    \A h \in Handlers :
        LET s == handlers[h]
            info == cmd.args[1]
        IN  C16_ZeroFinish(s, info)
                => /\ s.res.value.t = "null"
                   /\ (s.res.cancelled # "null") = (info.default \in {"absent", "null"})

\* C17 as stated, for an infinite argument given a non-empty list of values. The
\* expected results are the provided values in order, each invalid one replaced by
\* the next valid reply. If all provided values are valid, obtain returns their
\* parsed list without prompt or answer; otherwise the values collected at any
\* moment are the expected ones for the answers so far (so values before the first
\* invalid position j are parsed before the first prompt, which is for position j,
\* and after a valid reply the value at j+1 is taken next), and obtain does not
\* return without having sent a prompt.
C17_Valid(text, info) == IntegerValidate(text, info) = VTrue

RECURSIVE C17_Expected(_, _, _)
C17_Expected(values, answers, info) ==
    IF values = <<>> THEN <<>>
    ELSE IF C17_Valid(Head(values), info)
        THEN <<ParseInt(Head(values)).n>> \o C17_Expected(Tail(values), answers, info)
    ELSE IF answers = <<>> THEN <<>>
    ELSE IF C17_Valid(Head(answers), info)
        THEN <<ParseInt(Head(answers)).n>> \o C17_Expected(Tail(values), Tail(answers), info)
    ELSE C17_Expected(values, Tail(answers), info)

C17_Finished(answers) == answers # <<>> /\ answers[Len(answers)] = S_finish

C17_Case(s, info) == s.via = "collector" /\ info.infinite /\ s.provided # <<>>

C17_AllValid(s, info) == \A k \in DOMAIN s.provided : C17_Valid(s.provided[k], info)

C17_Common(s, info) ==
    /\ C17_AllValid(s, info)
            => /\ s.pc = "returned"
               /\ s.res = [value |-> JArr(C17_Expected(s.provided, <<>>, info)),
                            cancelled |-> "null", prompts |-> <<>>, answers |-> <<>>]
    /\ s.pc \in {"prompt", "await"}
            => /\ s.results = C17_Expected(s.provided, s.answers, info)
               /\ s.currentVal = Len(s.results)
               /\ s.currentVal < Len(s.provided)
               /\ ~C17_Valid(s.provided[s.currentVal + 1], info)
               /\ s.answers = <<>> /\ s.pc = "prompt" => s.prompts = <<>>
    /\ (/\ s.pc = "returned" /\ s.outcome # "threw" /\ s.res.cancelled = "null"
         /\ ~C17_Finished(s.res.answers))
            => /\ s.res.value = JArr(C17_Expected(s.provided, s.res.answers, info))
               /\ Len(s.res.value.a) = Len(s.provided)

C17_ProvidedValues ==
    \A h \in Handlers :
        LET s == handlers[h]
            info == cmd.args[1]
        IN  C17_Case(s, info)
                => /\ C17_Common(s, info)
                   /\ s.pc = "returned" /\ s.outcome # "threw" /\ ~C17_AllValid(s, info)
                        => Len(s.res.prompts) >= 1

\* C17 amended: the same, where a prompt for the first invalid position is only
\* certain when the prompt limit is at least 1; with a prompt limit of 0 obtain
\* returns cancelled promptLimit at that position without prompting.
C17_ProvidedValuesLimited ==
    \A h \in Handlers :
        LET s == handlers[h]
            info == cmd.args[1]
        IN  C17_Case(s, info)
                => /\ C17_Common(s, info)
                   /\ (/\ s.pc = "returned" /\ s.outcome # "threw" /\ ~C17_AllValid(s, info)
                        /\ cmd.promptLimit >= 1)
                        => Len(s.res.prompts) >= 1
                   /\ (/\ s.pc = "returned" /\ s.outcome # "threw" /\ ~C17_AllValid(s, info)
                        /\ cmd.promptLimit = 0)
                        => s.res.cancelled = "promptLimit" /\ s.res.prompts = <<>>

C17_Witness ==
    \E h \in Handlers :
        /\ C17_Case(handlers[h], cmd.args[1])
        /\ handlers[h].provided = <<S_x, S_3>>
        /\ handlers[h].pc = "returned"
        /\ handlers[h].res.answers = <<S_4>>
        /\ handlers[h].res.value = JArr(<<4, 3>>)
        /\ Len(handlers[h].res.prompts) = 1

\* C18: the collector obtains its arguments in declared order, one at a time; it
\* stops at the first cancelled result, and then returns values null, that result's
\* cause and the prompts and answers of all arguments obtained up to and including
\* it, concatenated in argument order; without cancellation it returns the value
\* of every argument under its key.
RECURSIVE C18_Transcript(_, _, _)
C18_Transcript(rs, k, field) ==
    IF k > Len(rs) THEN <<>>
    ELSE (IF field = "prompts" THEN rs[k].prompts ELSE rs[k].answers)
            \o C18_Transcript(rs, k + 1, field)

C18_InOrder(s) ==
    /\ Len(s.argResults) <= Len(cmd.args)
    /\ s.pc \in {"prompt", "await"} => s.i = Len(s.argResults) + 1
    /\ \A k \in DOMAIN s.argResults :
            /\ k < Len(s.argResults) => s.argResults[k].cancelled = "null"
            /\ \A q \in DOMAIN s.argResults[k].prompts : s.argResults[k].prompts[q] = k

C18_Aggregate(s) ==
    LET n == Len(s.argResults)
        r == s.collResult
    IN  /\ r.has
        /\ n >= 1
        /\ r.cancelled = s.argResults[n].cancelled
        /\ r.prompts = C18_Transcript(s.argResults, 1, "prompts")
        /\ r.answers = C18_Transcript(s.argResults, 1, "answers")
        /\ IF r.cancelled # "null" THEN r.values = <<>>
           ELSE /\ n = Len(cmd.args)
                /\ r.values = [k \in 1..n |-> [key |-> cmd.args[k].key,
                                                 value |-> s.argResults[k].value]]

C18_OrderedShortCircuit ==
    \A h \in Handlers :
        LET s == handlers[h]
        IN  s.via = "collector" =>
                /\ C18_InOrder(s)
                /\ s.pc = "returned" /\ s.outcome # "threw" => C18_Aggregate(s)

C18_Witness ==
    \E h \in Handlers :
        LET s == handlers[h]
        IN  /\ s.pc = "returned" /\ Len(cmd.args) = 3
            /\ Len(s.argResults) = 2
            /\ s.collResult.cancelled = "time"
            /\ s.collResult.prompts = <<1, 2>>
            /\ s.collResult.answers = <<S_3>>
            /\ s.collResult.values = <<>>

\* C19 as stated: when the collection of a message command is cancelled, the usage
\* is reported as malformed without commandCancel if no prompt was sent, and in
\* every other case commandCancel is emitted once with the cause.
C19_Cancelled(s) == s.via = "run" /\ s.collResult.has /\ s.collResult.cancelled # "null"

C19_FormatError(s) == s.outcome = "formatError" /\ s.nCancel = 0 /\ s.cancelCause = ""

C19_CancelEmitted(s) ==
    s.outcome = "cancelled" /\ s.nCancel = 1 /\ s.cancelCause = s.collResult.cancelled

C19_CancelUnlessUnprompted ==
    \A h \in Handlers :
        LET s == handlers[h]
        IN  C19_Cancelled(s) =>
                IF s.collResult.prompts = <<>> THEN C19_FormatError(s)
                ELSE C19_CancelEmitted(s)

\* C19 amended: malformed usage without commandCancel is reported if no prompt was
\* sent or if the cause is promptLimit; commandCancel is emitted with the cause in
\* the other cases, which are the causes user and time after at least one prompt.
C19_CancelUnlessUnpromptedOrLimit ==
    \A h \in Handlers :
        LET s == handlers[h]
        IN  C19_Cancelled(s) =>
                /\ s.bodyCalls = 0
                /\ IF s.collResult.prompts = <<>> \/ s.collResult.cancelled = "promptLimit"
                   THEN C19_FormatError(s)
                   ELSE C19_CancelEmitted(s) /\ s.cancelCause \in {"user", "time"}

C19_Witness ==
    \E h, g \in Handlers :
        /\ handlers[h].pc = "done" /\ C19_Cancelled(handlers[h])
        /\ handlers[h].collResult.cancelled = "promptLimit"
        /\ Len(handlers[h].collResult.prompts) = 2
        /\ C19_FormatError(handlers[h])
        /\ handlers[g].pc = "done" /\ C19_Cancelled(handlers[g])
        /\ handlers[g].collResult.cancelled = "user"
        /\ C19_CancelEmitted(handlers[g])

\* C20: a message of the client's own user, of another bot, or of a user whose
\* (author, channel) key is in the awaiting set is dropped by handleMessage: no
\* handling starts for it (no command resolved, no inhibitor called), no notification
\* is emitted and the results cache is unchanged; all that can happen in the step is
\* that a collector awaiting that author in that channel consumes it as an answer.
C20_Dropped(author, chan) ==
    author = "self" \/ author = "bot" \/ <<author, chan>> \in awaiting

C20_Untouched(s, s2) ==
    /\ s2.msgId = s.msgId /\ s2.via = s.via
    /\ s2.nBlock = s.nBlock /\ s2.nCancel = s.nCancel
    /\ s2.nRun = s.nRun /\ s2.nError = s.nError
    /\ s2.blockReason = s.blockReason

C20_Step ==
    \A author \in Authors, fate \in Fates :
        (UserCommand(author, "c1", <<>>, fate) /\ C20_Dropped(author, "c1"))
            => /\ results' = results
               /\ throttles' = throttles
               /\ \A h \in Handlers :
                     /\ C20_Untouched(handlers[h], handlers'[h])
                     /\ h \notin Recipients(handlers, author, "c1")
                            => handlers'[h] = handlers[h]

C20_DroppedMessages == [][C20_Step]_vars

C20_Witness ==
    /\ nEvents = 3
    /\ results = {1}
    /\ \E h \in Handlers : handlers[h].pc = "done" /\ handlers[h].outcome = "ran"
    /\ \A h \in Handlers : handlers[h].pc \in {"idle", "done"}
    /\ Cardinality({h \in Handlers : handlers[h].pc = "done"}) = 1

\* C21 (as stated): the inhibitors are called in registration order up to the first one
\* that returns a truthy result; that result blocks the command: exactly one
\* commandBlock is emitted, with that inhibitor's reason, no later inhibitor is called,
\* no policy gate is evaluated and the command body is not invoked.
C21_Truthy(s) == {k \in DOMAIN s.inhibitResults : s.inhibitResults[k] # "falsy"}
C21_First(s) == CHOOSE k \in C21_Truthy(s) : \A j \in C21_Truthy(s) : k <= j
C21_UpTo(n) == [k \in 1..n |-> k]

C21_BlockedBy(s, k) ==
    /\ s.inhibitCalls = C21_UpTo(k)
    /\ s.nBlock = 1 /\ s.blockBy = k /\ s.blockReason = "inhibitor"
    /\ s.pc \in {"replying", "done"}
    /\ s.bodyCalls = 0 /\ s.nRun = 0

C21_FirstTruthyBlocks ==
    \A h \in Handlers :
        LET s == handlers[h]
        IN  (s.via = "run" /\ C21_Truthy(s) # {}) => C21_BlockedBy(s, C21_First(s))

\* C21 (amended): the first truthy result blocks the command as stated when it is a
\* string or a well-formed Inhibition object; when it is any other truthy value,
\* inhibit() throws a TypeError: no later inhibitor is called, no commandBlock is
\* emitted, no gate is evaluated and the body is not invoked.
C21_FirstValidTruthyBlocks ==
    \A h \in Handlers :
        LET s == handlers[h]
            k == C21_First(s)
        IN  (s.via = "run" /\ C21_Truthy(s) # {}) =>
                IF s.inhibitResults[k] \in {"string", "object"}
                THEN C21_BlockedBy(s, k)
                ELSE /\ s.inhibitCalls = C21_UpTo(k)
                     /\ s.nBlock = 0 /\ s.blockBy = 0 /\ s.pc = "done"
                     /\ s.outcome = "inhibitorThrew"
                     /\ s.bodyCalls = 0 /\ s.nRun = 0

\* a dmOnly command sent in a guild channel, the second of three inhibitors blocking
C21_Witness ==
    \E h \in Handlers :
        /\ handlers[h].pc = "done" /\ handlers[h].chan = "c1"
        /\ "dmOnly" \in cmd.flags
        /\ handlers[h].inhibitResults = <<"falsy", "object", "string">>
        /\ handlers[h].nBlock = 1

\* C22: when two or more of the gates of a message command fail for a message, exactly
\* one commandBlock is emitted, with the reason of the first failing gate in the order
\* dmOnly, guildOnly, nsfw, user permission, client permissions, throttling; no later
\* gate is evaluated (the throttle is not touched) and the body is never invoked.
C22_Order ==
    <<"dmOnly", "guildOnly", "nsfw", "userPermissions", "clientPermissions", "throttling">>

C22_Fails(g, chan) ==
    IF g = "dmOnly" THEN "dmOnly" \in cmd.flags /\ chan = "c1"
    ELSE IF g = "guildOnly" THEN "guildOnly" \in cmd.flags /\ chan = "c2"
    ELSE IF g = "nsfw" THEN "nsfw" \in cmd.flags /\ chan = "c1"
    ELSE IF g = "userPermissions" THEN "noUserPermission" \in cmd.flags /\ chan = "c1"
    ELSE IF g = "clientPermissions" THEN "clientMissing" \in cmd.flags /\ chan = "c1"
    ELSE /\ cmd.throttling.on /\ throttles["u1"].has
         /\ throttles["u1"].usages >= cmd.throttling.usages

C22_Failing(chan) == {k \in DOMAIN C22_Order : C22_Fails(C22_Order[k], chan)}

C22_First(chan) ==
    C22_Order[CHOOSE k \in C22_Failing(chan) : \A j \in C22_Failing(chan) : k <= j]

C22_Step ==
    \A h \in Handlers :
        LET s == handlers[h]
            s2 == handlers'[h]
        IN  (/\ s.pc \in {"idle", "done"} /\ s2.pc \notin {"idle", "done"}
             /\ s2.via = "run"
             /\ Cardinality(C22_Failing(s2.chan)) >= 2)
            => /\ s2.pc = "replying" /\ s2.outcome = "blocked"
               /\ s2.nBlock = 1 /\ s2.blockReason = C22_First(s2.chan)
               /\ s2.bodyCalls = 0
               /\ s2.blockReason # "throttling" => throttles' = throttles

C22_Inv ==
    \A h \in Handlers :
        (handlers[h].via = "run" /\ handlers[h].outcome = "blocked")
            => /\ handlers[h].nBlock = 1
               /\ handlers[h].bodyCalls = 0 /\ handlers[h].nRun = 0
               /\ handlers[h].pc \in {"replying", "done"}

C23_NoPermissionNoBody ==
    \A h \in Handlers :
        LET s == handlers[h]
        IN  (s.via \in {"run", "interaction", "slash"} /\ "noUserPermission" \in cmd.flags)
                => /\ s.bodyCalls = 0
                   /\ s.pc = "done" => s.nBlock = 1

\* C28: when the command body throws a FriendlyError, commandError is emitted once and
\* the error's message is sent as the response while command.onError is not invoked;
\* onError is invoked only for other errors. For messages and interactions alike.
C28_FriendlyErrorNoOnError ==
    \A h \in Handlers :
        LET s == handlers[h]
        IN  /\ s.outcome \in {"friendlyError", "friendlyErrorOnError"}
                => s.nError = 1 /\ s.onErrorCalls = 0
            /\ s.onErrorCalls > 0 => s.outcome = "error"

\* C24: findCommands(s, false) returns exactly one command, one whose name or alias
\* equals s ignoring case, whenever such a command is registered; findGroups(s, false)
\* returns exactly one group, one whose id or name equals s ignoring case, whenever
\* such a group is registered; whatever else contains s as a substring.
C24_Same(a, b) ==
    /\ Len(a) = Len(b)
    /\ \A k \in 1..Len(a) :
          \/ a[k] = b[k]
          \/ {a[k], b[k]} \in {{"f", "F"}, {"i", "I"}, {"n", "N"}, {"l", "L"}}

C24_CommandIs(c, str) ==
    C24_Same(c.name, str) \/ \E k \in DOMAIN c.aliases : C24_Same(c.aliases[k], str)

C24_GroupIs(g, str) == C24_Same(g.id, str) \/ C24_Same(g.name, str)

C24_ExactMatchWins ==
    /\ (/\ registry.op = "findCommands" /\ ~registry.exact /\ registry.search # <<>>
         /\ \E k \in DOMAIN registry.commands :
                C24_CommandIs(registry.commands[k], registry.search))
            => /\ Len(registry.found) = 1
               /\ C24_CommandIs(registry.found[1], registry.search)
               /\ \E k \in DOMAIN registry.commands : registry.commands[k] = registry.found[1]
    /\ (/\ registry.op = "findGroups" /\ ~registry.exact /\ registry.search # <<>>
         /\ \E k \in DOMAIN registry.groups :
                C24_GroupIs(registry.groups[k], registry.search))
            => /\ Len(registry.found) = 1
               /\ C24_GroupIs(registry.found[1], registry.search)
               /\ \E k \in DOMAIN registry.groups : registry.groups[k] = registry.found[1]

\* `Fin` is searched for while the commands fin and final are registered
C24_Witness ==
    /\ registry.op = "findCommands" /\ ~registry.exact
    /\ registry.search = <<"F", "i", "n">>
    /\ Len(registry.commands) = 2
    /\ registry.commands[1].name = <<"f", "i", "n", "a", "l">>
    /\ registry.commands[2].name = <<"f", "i", "n">>
    /\ registry.found = <<registry.commands[2]>>

\* C26: registerCommand, registerGroup and registerType throw when the identifier (a
\* command name or alias, a group id, a type id) is already registered, and leave the
\* commands, groups and types of the registry as they were.
C26_Rejected ==
    /\ registry'.threw
    /\ registry'.commands = registry.commands
    /\ registry'.groups = registry.groups
    /\ registry'.types = registry.types

C26_Names(c) == {c.name} \cup {c.aliases[k] : k \in DOMAIN c.aliases}

C26_Step ==
    /\ \A g \in GroupInputs :
          (RegisterGroup(g) /\ \E k \in DOMAIN registry.groups : registry.groups[k].id = g.id)
              => C26_Rejected
    /\ \A c \in CommandInputs :
          (RegisterCommand(c)
           /\ \E k \in DOMAIN registry.commands :
                  C26_Names(registry.commands[k]) \cap C26_Names(c) # {})
              => C26_Rejected
    /\ \A id \in TypeInputs :
          (RegisterType(id) /\ id \in registry.types) => C26_Rejected

C26_DuplicatesRejected == [][C26_Step]_vars

\* C25: parseArgs(argString, N) with N >= 2 returns the first N-1 tokens of argString
\* (separated by whitespace; a run in double quotes or, when allowed, in single quotes
\* is one token, its quotes stripped) followed, when text remains, by the remaining
\* text verbatim; `"hello world" now` with count 2 gives [hello world, now].
RECURSIVE C25_Expected(_, _, _, _, _)
C25_Expected(str, i, left, allowSingleQuote, acc) ==
    LET m == RegexExec(str, i, allowSingleQuote)
    IN  IF left = 0
        THEN IF i <= Len(str) THEN Append(acc, SubSeq(str, i, Len(str))) ELSE acc
        ELSE IF ~m.found THEN acc
        ELSE C25_Expected(str, m.next, left - 1, allowSingleQuote, Append(acc, m.text))

C25_TokensThenRemainder ==
    (parsed.called /\ parsed.argCount >= 2)
        => /\ parsed.result =
                C25_Expected(RemoveSmartQuotes(parsed.argString, parsed.allowSingleQuote),
                             1, parsed.argCount - 1, parsed.allowSingleQuote, <<>>)
           /\ (parsed.argString = S_helloWorldNow /\ parsed.argCount = 2)
                => parsed.result =
                     <<(<<"h", "e", "l", "l", "o", " ", "w", "o", "r", "l", "d">>),
                       (<<"n", "o", "w">>)>>

\* C27: an argument without a type but with a custom validate and a custom parse is
\* accepted by the constructor and its obtain validates and parses the input without
\* throwing; an argument with neither a type nor both functions is rejected.
C27_Typeless(info) == info.type = "none"

C27_TypelessWithFunctions ==
    /\ ctor.called =>
          LET info == ctor.args[1]
          IN  /\ (C27_Typeless(info) /\ info.validate /\ info.parse) => ~ctor.threw
              /\ (C27_Typeless(info) /\ ~(info.validate /\ info.parse)) => ctor.threw
    /\ \A h \in Handlers : handlers[h].thrown # "validate"
\* the ids of the responses in the lists of every channel
C29_Ids(lists) == UNION {{lists[c][i] : i \in DOMAIN lists[c]} : c \in ResponseChannels}

\* the responses the last run made, per channel, in the order they were made
C29_Made(c) ==
    LET sel == SelectSeq(cmdMsg.produced, LAMBDA r : r.channel = c)
    IN  [k \in 1..Len(sel) |-> sel[k].id]

\* the run of a command for an edited message has been finalized
C29_ReRunDone ==
    cmdMsg.phase = "idle" /\ cmdMsg.update /\ cmdMsg.ran /\ cmdMsg.content = "command"

\* C29: when a command was re-run for an edited message, every response sent before
\* that the new run did not reuse has been deleted, and the stored responses are
\* exactly the responses of the new run.
C29_UnusedDeletedAndStored ==
    C29_ReRunDone =>
        /\ \A r \in C29_Ids(cmdMsg.prior) :
               r \notin C29_Ids([c \in ResponseChannels |-> C29_Made(c)]) => r \in cmdMsg.deleted
        /\ \A c \in ResponseChannels : cmdMsg.responses[c] = C29_Made(c)

\* C30: with nonCommandEditable enabled and commandEditableDuration > 0, a message
\* that was not a command and is edited into a valid, enabled, uninhibited command
\* has that command run.
C30_EditedIntoCommandRuns ==
    (/\ options.nonCommandEditable /\ options.commandEditableDuration > 0
     /\ cmdMsg.update /\ cmdMsg.previous = "text" /\ cmdMsg.content = "command")
        => cmdMsg.ran


\* C31: for a throttled command with limit U, under every interleaving of one
\* user's invocations, the usage count of the user's throttle never exceeds U (each
\* invocation of the body counts one usage of the window it was tested in).
C31_UsagesWithinLimit ==
    \A u \in Users :
        throttles[u].has => throttles[u].usages <= cmd.throttling.usages


\* the invocations of user u that pass `throttle.usages++` in this step, holding the
\* throttle object of generation g
C37_Entering(u, g) ==
    {h \in Handlers : /\ handlers[h].pc # "typing" /\ handlers'[h].pc = "typing"
                      /\ handlers'[h].author = u /\ handlers'[h].throttleGen = g}

C37_Step ==
    /\ \A u \in Users :
          LET t == throttles[u]
              t2 == throttles'[u]
          IN  t2.has =>
                 t2.usages = (IF t.has /\ t.gen = t2.gen THEN t.usages ELSE 0)
                                + Cardinality(C37_Entering(u, t2.gen))
    /\ \A h \in Handlers :
          (handlers[h].pc # "typing" /\ handlers'[h].pc = "typing")
             => handlers'[h].nBlock = 0 /\ handlers'[h].collResult.cancelled = "null"
    /\ \A h \in Handlers :
          handlers'[h].bodyCalls > handlers[h].bodyCalls
             => handlers[h].pc = "typing" /\ throttles' = throttles

\* C37: the usage count of a user's throttle changes only when one of the user's
\* invocations reaches the command body, by one per such invocation (counted on the
\* throttle the invocation obtained at the throttle test) and before the body is
\* called; an invocation that a gate blocks or whose argument collection is
\* cancelled never reaches that point and changes no count.
C37_CountedOncePerRun == [][C37_Step]_vars

C37_Witness ==
    /\ throttles["u1"].has /\ throttles["u1"].usages = 1
    /\ \E h, k \in Handlers :
          /\ handlers[h].outcome = "cancelled" /\ handlers[h].bodyCalls = 0
          /\ handlers[k].bodyCalls = 1


\* C32: when two obtain cycles of the shared invite type are interleaved at their
\* awaits, parse for the raw value v returns the invite fetched for v.
C32_ParseReturnsOwnInvite ==
    \A k \in 1..2 :
        invite.cycles[k].pc = "parsed" => invite.cycles[k].result = invite.cycles[k].value


\* C33: a commandBlock with reason nsfw is emitted only for a command flagged
\* NSFW-only (neither channel of the model is NSFW), for messages and interactions.
C33_NsfwOnlyForNsfwCommands ==
    \A h \in Handlers :
        handlers[h].blockReason = "nsfw" => "nsfw" \in cmd.flags


\* C34: a command that is disabled in the guild is never invoked for a message or
\* an interaction coming from that guild.
C34_DisabledNeverInvoked ==
    \A h \in Handlers :
        (InGuild(handlers[h].chan) /\ ~handlers[h].enabledIn) => handlers[h].bodyCalls = 0


\* C35: every entry placed in the results cache is eventually removed, the
\* eviction timers firing fairly.
C35_EveryEntryEvicted == (1 \in results) ~> (1 \notin results)


\* C36: after any sequence of registerCommand, reregisterCommand and
\* unregisterCommand calls no name or alias belongs to two different registered
\* commands, so resolving a registered name or alias finds exactly one command.
C36_NamesUnique ==
    \A j, k \in DOMAIN registry.commands :
        LET cj == registry.commands[j]
            ck == registry.commands[k]
        IN  /\ j # k => C26_Names(cj) \cap C26_Names(ck) = {}
            /\ \A n \in C26_Names(ck) : Len(FindCommands(registry.commands, n, TRUE)) = 1


\* the outcome C38 states for a validator result and an error-message override
C38_Expected(valid, error) ==
    IF valid = VTrue THEN VTrue
    ELSE IF error # "" THEN VStr(error)
    ELSE valid

\* C38: Argument.validate yields the same outcome whether the validator returns
\* its result directly or through a promise: true accepts, a rejection string is
\* passed through unchanged and false is the generic rejection, unless an
\* error-message override is set, which every rejection yields.
C38_SameDirectOrPromise ==
    \A how \in {"direct", "promise"} :
        validation[how].called
            => validation[how].outcome = C38_Expected(validation[how].valid,
                                                      validation[how].error)


\* C39: every stored response is under the id of the guild channel it was sent
\* in, or under 'DM' when it was sent in a direct message, so that responses of
\* different channels never share a key.
C39_KeyedByChannel ==
    \A k \in ResponseKeys : \A i \in DOMAIN stored.responses[k] :
        LET channel == stored.responses[k][i]
        IN  k = (IF channel.dm THEN "DM" ELSE channel.id)


\* C40: a non-guarded group for which setGroupEnabled(g, e) was called (the value
\* of its last call is the entry of g in groupsEnabled) has isGroupEnabled(g) = e,
\* whatever setCommandEnabled calls were made; for a guarded group
\* setGroupEnabled throws and isGroupEnabled is true.
C40_GroupStatusIsLastSet ==
    \A group \in GuildGroups :
        IF group.guarded
        THEN /\ IsGroupEnabled(guild, group)
             /\ (guild.call.op = "setGroupEnabled" /\ guild.call.target = group.id)
                    => guild.call.result = "threw"
        ELSE guild.groupsEnabled[group.id] # "unset"
                => Status(IsGroupEnabled(guild, group)) = guild.groupsEnabled[group.id]


====
